---- MODULE Spec2Model ----
(***************************************************************************)
(* Model of nuclear_explosions.py: the chart-specification builder         *)
(* prepare_chart_data, the filter that produces filtered_df, and the       *)
(* session-scoped visualization queue (visuals_to_render and               *)
(* visual_id_counter) that a Streamlit script run reads and updates.       *)
(*                                                                         *)
(* Conventions.  A text value is a sequence of one-character strings, so   *)
(* that strip() and lower() are computed character by character.  A cell   *)
(* of a DataFrame is <<>> when the value is missing (NaN / NaT) and <<v>>  *)
(* when it is present.  A date is the integer yyyymmdd.  A DataFrame is    *)
(* [columns |-> set of column names, rows |-> sequence of rows], a row     *)
(* being a function from column names to cells; NoneDF is Python's None.   *)
(***************************************************************************)
EXTENDS Integers, Sequences, FiniteSets, TLC

\* ------------------------------------------------------------------ bounds
MaxRows == 3
MaxPad == 1
MaxMaps == 2
MaxChanged == 2
MaxQueued == 2

\* ------------------------------------------------------- program constants
MaxVisuals == 10

\* ------------------------------------------------------------ text helpers
Whitespace == {" ", "\t", "\n"}

UpperToLower ==
    [c \in {"A","B","C","D","E","F","G","H","I","J","K","L","M",
            "N","O","P","Q","R","S","T","U","V","W","X","Y","Z"} |->
       CASE c = "A" -> "a" [] c = "B" -> "b" [] c = "C" -> "c" [] c = "D" -> "d"
         [] c = "E" -> "e" [] c = "F" -> "f" [] c = "G" -> "g" [] c = "H" -> "h"
         [] c = "I" -> "i" [] c = "J" -> "j" [] c = "K" -> "k" [] c = "L" -> "l"
         [] c = "M" -> "m" [] c = "N" -> "n" [] c = "O" -> "o" [] c = "P" -> "p"
         [] c = "Q" -> "q" [] c = "R" -> "r" [] c = "S" -> "s" [] c = "T" -> "t"
         [] c = "U" -> "u" [] c = "V" -> "v" [] c = "W" -> "w" [] c = "X" -> "x"
         [] c = "Y" -> "y" [] c = "Z" -> "z"]

\* str.lower()
Lower(s) == [i \in 1..Len(s) |-> IF s[i] \in DOMAIN UpperToLower
                                   THEN UpperToLower[s[i]] ELSE s[i]]

\* str.upper()
LowerToUpper ==
    [c \in {UpperToLower[u] : u \in DOMAIN UpperToLower} |->
       CHOOSE u \in DOMAIN UpperToLower : UpperToLower[u] = c]

Upper(s) == [i \in 1..Len(s) |-> IF s[i] \in DOMAIN LowerToUpper
                                   THEN LowerToUpper[s[i]] ELSE s[i]]

RECURSIVE LStrip(_)
LStrip(s) == IF s # <<>> /\ Head(s) \in Whitespace THEN LStrip(Tail(s)) ELSE s

RECURSIVE RStrip(_)
RStrip(s) == IF s # <<>> /\ s[Len(s)] \in Whitespace
               THEN RStrip(SubSeq(s, 1, Len(s) - 1)) ELSE s

\* str.strip()
Strip(s) == RStrip(LStrip(s))

DigitChar == <<"0", "1", "2", "3", "4", "5", "6", "7", "8", "9">>

\* str(n) of a non-negative integer, as used by f-strings
RECURSIVE Digits(_)
Digits(n) == IF n < 10 THEN <<DigitChar[n + 1]>>
             ELSE Digits(n \div 10) \o <<DigitChar[(n % 10) + 1]>>

\* zero padded field of strftime: %m, %d (width 2), %Y (width 4)
RECURSIVE ZeroPad(_, _)
ZeroPad(s, w) == IF Len(s) >= w THEN s ELSE ZeroPad(<<"0">> \o s, w)

NoName == <<"n", "o", " ", "n", "a", "m", "e">>
VisualPrefix == <<"V", "i", "s", "u", "a", "l", " ", "#">>

\* ------------------------------------------------------------ cell helpers
NA == <<>>
Val(v) == <<v>>
IsNA(c) == Len(c) = 0
NoneValue == "None"
NoneDF == [columns |-> {"<None>"}, rows |-> <<>>]
EmptyDict == [k \in {} |-> TRUE]

\* DataFrame.empty: true when either axis has length 0
IsEmpty(df) == Len(df.rows) = 0 \/ df.columns = {}

\* Series.dropna()
DropNa(s) == SelectSeq(s, LAMBDA c : ~IsNA(c))

Column(df, col) == [i \in 1..Len(df.rows) |-> df.rows[i][col]]

Values(s) == [i \in 1..Len(s) |-> s[i][1]]

\* ----------------------------------------------------- aggregation helpers
RECURSIVE Uniq(_)
\* the distinct elements of s in order of first appearance
Uniq(s) == IF s = <<>> THEN <<>>
           ELSE LET u == Uniq(SubSeq(s, 1, Len(s) - 1))
                    x == s[Len(s)]
                IN IF \E i \in 1..Len(u) : u[i] = x THEN u ELSE Append(u, x)

CountOf(s, x) == Cardinality({i \in 1..Len(s) : s[i] = x})

RECURSIVE SortAsc(_)
\* the integers of set S in ascending order (Series.sort_index on a year index)
SortAsc(S) == IF S = {} THEN <<>>
              ELSE LET m == CHOOSE x \in S : \A y \in S : x <= y
                   IN <<m>> \o SortAsc(S \ {m})

RECURSIVE SortByCountDesc(_, _)
\* stable sort of the labels u by descending number of occurrences in s
SortByCountDesc(u, s) ==
    IF u = <<>> THEN <<>>
    ELSE LET best == CHOOSE i \in 1..Len(u) :
                        /\ \A j \in 1..Len(u) : CountOf(s, u[i]) >= CountOf(s, u[j])
                        /\ \A j \in 1..(i - 1) : CountOf(s, u[j]) < CountOf(s, u[i])
             rest == [j \in 1..(Len(u) - 1) |-> IF j < best THEN u[j] ELSE u[j + 1]]
         IN <<u[best]>> \o SortByCountDesc(rest, s)

\* Series.value_counts(): missing values dropped, one (label, count) entry per
\* distinct value, largest count first
ValueCounts(s) ==
    LET present == Values(DropNa(s))
        index   == SortByCountDesc(Uniq(present), present)
    IN [index  |-> index,
        values |-> [i \in 1..Len(index) |-> CountOf(present, index[i])]]

\* Series.value_counts().sort_index() on integer labels
ValueCountsSortedByIndex(s) ==
    LET present == Values(DropNa(s))
        index   == SortAsc({present[i] : i \in 1..Len(present)})
    IN [index  |-> index,
        values |-> [i \in 1..Len(index) |-> CountOf(present, index[i])]]

\* ------------------------------------------------------------------- dates
MkDate(y, m, d) == y * 10000 + m * 100 + d
YearOf(date) == date \div 10000
MonthOf(date) == (date \div 100) % 100
DayOf(date) == date % 100

\* Series.dt.year
DtYear(s) == [i \in 1..Len(s) |-> IF IsNA(s[i]) THEN NA ELSE Val(YearOf(s[i][1]))]

\* Series.dt.strftime('%Y-%m-%d')
StrfTime(date) == ZeroPad(Digits(YearOf(date)), 4) \o <<"-">>
                  \o ZeroPad(Digits(MonthOf(date)), 2) \o <<"-">>
                  \o ZeroPad(Digits(DayOf(date)), 2)

\* -------------------------------------------------------- purpose_map dict
purpose_map ==
    [c \in {"Combat", "Fms", "Fms/Wr", "Me", "Nan", "Pne", "Pne/Wr", "Pne:Plo",
            "Pne:V", "Sam", "Sb", "Se", "Se/Wr", "Transp", "We", "We/Sam",
            "We/Wr", "Wr", "Wr/F/S", "Wr/F/Sa", "Wr/Fms", "Wr/P/S", "Wr/P/Sa",
            "Wr/Pne", "Wr/Sam", "Wr/Se", "Wr/We", "Wr/We/S"} |->
       CASE c = "Combat" -> "Combat Test"
         [] c = "Fms" -> "Fission Material Safety"
         [] c = "Fms/Wr" -> "Fission Material Safety & Warhead Research"
         [] c = "Me" -> "Meteorological Experiment"
         [] c = "Nan" -> "Naval Accident"
         [] c = "Pne" -> "Peaceful Nuclear Explosion"
         [] c = "Pne/Wr" -> "Peaceful Nuc. Expl. & Warhead Research"
         [] c = "Pne:Plo" -> "Peaceful Expl. (Plowshare)"
         [] c = "Pne:V" -> "Peaceful Expl. (Vessel/Channel)"
         [] c = "Sam" -> "Surface Area Measurement"
         [] c = "Sb" -> "Seismic Benchmark"
         [] c = "Se" -> "Safety Experiment"
         [] c = "Se/Wr" -> "Safety & Warhead Research"
         [] c = "Transp" -> "Transportation Test"
         [] c = "We" -> "Weapon Experiment"
         [] c = "We/Sam" -> "Weapon & Surface Area"
         [] c = "We/Wr" -> "Weapon & Warhead Research"
         [] c = "Wr" -> "Warhead Research"
         [] c = "Wr/F/S" -> "Warhead, Fissile & Safety"
         [] c = "Wr/F/Sa" -> "Warhead, Fissile & Surface Area"
         [] c = "Wr/Fms" -> "Warhead & Fissile Material Safety"
         [] c = "Wr/P/S" -> "Warhead, Plowshare & Safety"
         [] c = "Wr/P/Sa" -> "Warhead, Plowshare & Surface Area"
         [] c = "Wr/Pne" -> "Warhead & Peaceful Expl."
         [] c = "Wr/Sam" -> "Warhead & Surface Area"
         [] c = "Wr/Se" -> "Warhead & Safety"
         [] c = "Wr/We" -> "Warhead & Weapon"
         [] c = "Wr/We/S" -> "Warhead, Weapon & Safety"]

\* purposes.get(x, str(x)) applied by Series.map to every cell, the missing
\* ones included: str(nan) is the three-letter text "nan"
PurposeLabel(purposes, c) ==
    IF IsNA(c) THEN Val("nan")
    ELSE IF c[1] \in DOMAIN purposes THEN Val(purposes[c[1]]) ELSE Val(c[1])

country_color_map ==
    [c \in {<<"U","S","A">>, <<"U","S","S","R">>, <<"F","R","A","N","C","E">>,
            <<"U","K">>, <<"C","H","I","N","A">>, <<"I","N","D","I","A">>,
            <<"P","A","K","I","S","T">>} |->
       CASE c = <<"U","S","A">> -> <<0, 0, 255, 180>>
         [] c = <<"U","S","S","R">> -> <<255, 0, 0, 180>>
         [] c = <<"F","R","A","N","C","E">> -> <<0, 255, 0, 180>>
         [] c = <<"U","K">> -> <<255, 165, 0, 180>>
         [] c = <<"C","H","I","N","A">> -> <<255, 255, 0, 180>>
         [] c = <<"I","N","D","I","A">> -> <<255, 105, 180, 180>>
         [] c = <<"P","A","K","I","S","T">> -> <<75, 0, 130, 180>>]

\* ------------------------------------------------------ prepare_chart_data
VISUAL_CATEGORY_OPTIONS ==
    <<"Map of Filtered Detonations",
      "Histogram of Average Yields",
      "Timeline: Detonations by Year",
      "Bar Chart: Detonations by Purpose",
      "Scatter Plot: Yield vs. Depth",
      "Pie Chart: Detonations by Supplier Nation">>

Placeholder == "Select a category..."

MapColumns == {"latitude", "longitude", "Data.Name", "Date", "Yield.Avg",
               "WEAPON SOURCE COUNTRY"}

\* the outcome of a call: a returned value, or an exception that escapes
Return(v) == [raised |-> FALSE, exception |-> NoneValue, value |-> v]
Raise(e) == [raised |-> TRUE, exception |-> e, value |-> EmptyDict]

\* FinalDisplayName comparing with the sentinel without lower()
FinalDisplayName_case_sensitive(visual_id, custom_name) ==
    LET stripped_custom_name == Strip(custom_name)
    IN IF stripped_custom_name # <<>> /\ stripped_custom_name # NoName
         THEN stripped_custom_name
         ELSE VisualPrefix \o Digits(visual_id)

\* lines 67-72: the display name of the visual
FinalDisplayName(visual_id, custom_name) ==
    LET stripped_custom_name == Strip(custom_name)
    IN IF stripped_custom_name # <<>> /\ Lower(stripped_custom_name) # NoName
         THEN stripped_custom_name
         ELSE VisualPrefix \o Digits(visual_id)

\* lines 76-84: the result dictionary before any branch fills it
InitialResult(visual_id, custom_name) ==
    [success |-> FALSE,
     message |-> <<"Visual category not recognized or data preparation failed.">>,
     chart_type |-> NoneValue,
     data |-> EmptyDict,
     labels |-> EmptyDict,
     chart_specific_props |-> EmptyDict,
     final_display_name |-> FinalDisplayName(visual_id, custom_name)]

\* lines 95-100: the copy of the selected columns, Yield.Avg with missing
\* values replaced by 0 and the added Date_str column
PointsRow(row) ==
    ("latitude" :> row["latitude"])
    @@ ("longitude" :> row["longitude"])
    @@ ("Data.Name" :> row["Data.Name"])
    @@ ("Date" :> row["Date"])
    @@ ("Yield.Avg" :> (IF IsNA(row["Yield.Avg"]) THEN Val(0) ELSE row["Yield.Avg"]))
    @@ ("WEAPON SOURCE COUNTRY" :> row["WEAPON SOURCE COUNTRY"])
    @@ ("Date_str" :> (IF IsNA(row["Date"]) THEN NA ELSE Val(StrfTime(row["Date"][1]))))

PointsDf(df) ==
    [columns |-> MapColumns \cup {"Date_str"},
     rows |-> [i \in 1..Len(df.rows) |-> PointsRow(df.rows[i])]]

MapBranch(result, df) ==
    IF ~(MapColumns \subseteq df.columns) THEN Raise("KeyError")
    ELSE LET points_df == PointsDf(df)
             r == [result EXCEPT !.chart_type = "pydeck_scatter_detailed"]
         IN IF ~IsEmpty(points_df)
              THEN Return([r EXCEPT !.success = TRUE,
                             !.message = <<"Data prepared for detailed PyDeck map.">>,
                             !.data = [points_df |-> points_df],
                             !.chart_specific_props = [color_map |-> country_color_map]])
              ELSE Return([r EXCEPT !.message = <<"No valid coordinate data for map.">>])

\* HistogramBranch with fillna(0) in place of dropna()
HistogramBranch_fillna(result, df) ==
    IF "Yield.Avg" \notin df.columns THEN Raise("KeyError")
    ELSE LET col == Column(df, "Yield.Avg")
             data_values == [i \in 1..Len(col) |-> IF IsNA(col[i]) THEN Val(0) ELSE col[i]]
             r == [result EXCEPT !.chart_type = "hist"]
         IN IF data_values # <<>>
              THEN Return([r EXCEPT !.success = TRUE,
                             !.message = <<"Data prepared for histogram.">>,
                             !.data = [values |-> Values(data_values)],
                             !.labels = [x_label |-> "Average Yield (kt)",
                                         y_label |-> "Number of Detonations"],
                             !.chart_specific_props =
                                 [bins |-> 20, color |-> "skyblue", edgecolor |-> "black"]])
              ELSE Return([r EXCEPT !.message =
                             <<"No 'Yield.Avg' data (all NaN or empty) to display histogram.">>])

HistogramBranch(result, df) ==
    IF "Yield.Avg" \notin df.columns THEN Raise("KeyError")
    ELSE LET data_values == DropNa(Column(df, "Yield.Avg"))
             r == [result EXCEPT !.chart_type = "hist"]
         IN IF data_values # <<>>
              THEN Return([r EXCEPT !.success = TRUE,
                             !.message = <<"Data prepared for histogram.">>,
                             !.data = [values |-> Values(data_values)],
                             !.labels = [x_label |-> "Average Yield (kt)",
                                         y_label |-> "Number of Detonations"],
                             !.chart_specific_props =
                                 [bins |-> 20, color |-> "skyblue", edgecolor |-> "black"]])
              ELSE Return([r EXCEPT !.message =
                             <<"No 'Yield.Avg' data (all NaN or empty) to display histogram.">>])

\* TimelineBranch without sort_index(): years in value_counts() order
TimelineBranch_by_count(result, df) ==
    IF "Date" \notin df.columns THEN Raise("KeyError")
    ELSE LET detonations_by_year == ValueCounts(DtYear(Column(df, "Date")))
             r == [result EXCEPT !.chart_type = "plot"]
         IN IF detonations_by_year.index # <<>>
              THEN Return([r EXCEPT !.success = TRUE,
                             !.message = <<"Data prepared for timeline.">>,
                             !.data = [x_values |-> detonations_by_year.index,
                                       y_values |-> detonations_by_year.values],
                             !.labels = [x_label |-> "Year",
                                         y_label |-> "Number of Detonations"],
                             !.chart_specific_props =
                                 [marker |-> "o", linestyle |-> "-", color |-> "green"]])
              ELSE Return([r EXCEPT !.message =
                             <<"No data to plot timeline by year after processing.">>])

TimelineBranch(result, df) ==
    IF "Date" \notin df.columns THEN Raise("KeyError")
    ELSE LET detonations_by_year == ValueCountsSortedByIndex(DtYear(Column(df, "Date")))
             r == [result EXCEPT !.chart_type = "plot"]
         IN IF detonations_by_year.index # <<>>
              THEN Return([r EXCEPT !.success = TRUE,
                             !.message = <<"Data prepared for timeline.">>,
                             !.data = [x_values |-> detonations_by_year.index,
                                       y_values |-> detonations_by_year.values],
                             !.labels = [x_label |-> "Year",
                                         y_label |-> "Number of Detonations"],
                             !.chart_specific_props =
                                 [marker |-> "o", linestyle |-> "-", color |-> "green"]])
              ELSE Return([r EXCEPT !.message =
                             <<"No data to plot timeline by year after processing.">>])

BarBranch(result, df, purposes) ==
    IF "Data.Purpose" \notin df.columns THEN Raise("KeyError")
    ELSE LET col == Column(df, "Data.Purpose")
             purpose_series == DropNa([i \in 1..Len(col) |-> PurposeLabel(purposes, col[i])])
             purpose_counts == ValueCounts(purpose_series)
             r == [result EXCEPT !.chart_type = "barh"]
         IN IF purpose_counts.index # <<>>
              THEN Return([r EXCEPT !.success = TRUE,
                             !.message = <<"Data prepared for bar chart.">>,
                             !.data = [y_categories |-> purpose_counts.index,
                                       x_values |-> purpose_counts.values],
                             !.labels = [x_label |-> "Number of Detonations"],
                             !.chart_specific_props = [color |-> "coral"]])
              ELSE Return([r EXCEPT !.message =
                             <<"No 'Data.Purpose' entries found or all are NaN after mapping.">>])

\* ScatterBranch reading the second complete row without checking there is one
ScatterBranch_unguarded(result, df) ==
    IF ~({"Yield.Avg", "Location.Cordinates.Depth"} \subseteq df.columns)
      THEN Raise("KeyError")
    ELSE LET plot_df == SelectSeq(df.rows,
                          LAMBDA row : /\ ~IsNA(row["Yield.Avg"])
                                       /\ ~IsNA(row["Location.Cordinates.Depth"]))
         IN IF Len(plot_df) > 1
              THEN Return([result EXCEPT !.chart_type = "scatter", !.success = TRUE,
                             !.message = <<"Data prepared for scatter plot.">>])
              ELSE Raise("IndexError")

\* ScatterBranch with the yield on the x axis and the depth on the y axis
ScatterBranch_swapped(result, df) ==
    IF ~({"Yield.Avg", "Location.Cordinates.Depth"} \subseteq df.columns)
      THEN Raise("KeyError")
    ELSE LET plot_df == SelectSeq(df.rows,
                          LAMBDA row : /\ ~IsNA(row["Yield.Avg"])
                                       /\ ~IsNA(row["Location.Cordinates.Depth"]))
             r == [result EXCEPT !.chart_type = "scatter"]
         IN IF plot_df # <<>> /\ Len(plot_df) > 1
              THEN Return([r EXCEPT !.success = TRUE,
                             !.message = <<"Data prepared for scatter plot.">>,
                             !.data = [x_values |-> [i \in 1..Len(plot_df) |->
                                            plot_df[i]["Yield.Avg"][1]],
                                       y_values |-> [i \in 1..Len(plot_df) |->
                                            plot_df[i]["Location.Cordinates.Depth"][1]]],
                             !.labels = [x_label |-> "Depth (km)",
                                         y_label |-> "Average Yield (kt)"],
                             !.chart_specific_props =
                                 [alpha |-> "0.6", edgecolors |-> "w", linewidth |-> "0.5"]])
              ELSE Return([r EXCEPT !.message =
                 <<"Not enough valid data points (Yield & Depth) for scatter plot after dropping NaNs.">>])

ScatterBranch(result, df) ==
    IF ~({"Yield.Avg", "Location.Cordinates.Depth"} \subseteq df.columns)
      THEN Raise("KeyError")
    ELSE LET plot_df == SelectSeq(df.rows,
                          LAMBDA row : /\ ~IsNA(row["Yield.Avg"])
                                       /\ ~IsNA(row["Location.Cordinates.Depth"]))
             r == [result EXCEPT !.chart_type = "scatter"]
         IN IF plot_df # <<>> /\ Len(plot_df) > 1
              THEN Return([r EXCEPT !.success = TRUE,
                             !.message = <<"Data prepared for scatter plot.">>,
                             !.data = [x_values |-> [i \in 1..Len(plot_df) |->
                                            plot_df[i]["Location.Cordinates.Depth"][1]],
                                       y_values |-> [i \in 1..Len(plot_df) |->
                                            plot_df[i]["Yield.Avg"][1]]],
                             !.labels = [x_label |-> "Depth (km)",
                                         y_label |-> "Average Yield (kt)"],
                             !.chart_specific_props =
                                 [alpha |-> "0.6", edgecolors |-> "w", linewidth |-> "0.5"]])
              ELSE Return([r EXCEPT !.message =
                 <<"Not enough valid data points (Yield & Depth) for scatter plot after dropping NaNs.">>])

PieBranch(result, df) ==
    IF "WEAPON SOURCE COUNTRY" \notin df.columns THEN Raise("KeyError")
    ELSE LET supplier_counts == ValueCounts(Column(df, "WEAPON SOURCE COUNTRY"))
             r == [result EXCEPT !.chart_type = "pie"]
         IN IF supplier_counts.index # <<>>
              THEN Return([r EXCEPT !.success = TRUE,
                             !.message = <<"Data prepared for pie chart.">>,
                             !.data = [sizes |-> supplier_counts.values,
                                       labels |-> supplier_counts.index],
                             !.labels = EmptyDict,
                             !.chart_specific_props =
                                 [autopct |-> "%.1f%%", startangle |-> 90]])
              ELSE Return([r EXCEPT !.message =
                             <<"No 'WEAPON SOURCE COUNTRY' data to display pie chart.">>])

\* prepare_chart_data leaving the initial message on an unknown category
prepare_chart_data_generic_fallback(category, visual_id, df, purposes, custom_name) ==
    LET result == InitialResult(visual_id, custom_name)
    IN IF df = NoneDF \/ IsEmpty(df)
         THEN Return([result EXCEPT !.message =
                        <<"No data available after filtering to generate visual.">>])
       ELSE IF category = "Map of Filtered Detonations" THEN MapBranch(result, df)
       ELSE IF category = "Histogram of Average Yields" THEN HistogramBranch(result, df)
       ELSE IF category = "Timeline: Detonations by Year" THEN TimelineBranch(result, df)
       ELSE IF category = "Bar Chart: Detonations by Purpose"
         THEN BarBranch(result, df, purposes)
       ELSE IF category = "Scatter Plot: Yield vs. Depth" THEN ScatterBranch(result, df)
       ELSE IF category = "Pie Chart: Detonations by Supplier Nation"
         THEN PieBranch(result, df)
       ELSE Return(result)

prepare_chart_data(category, visual_id, df, purposes, custom_name) ==
    LET result == InitialResult(visual_id, custom_name)
    IN IF df = NoneDF \/ IsEmpty(df)
         THEN Return([result EXCEPT !.message =
                        <<"No data available after filtering to generate visual.">>])
       ELSE IF category = "Map of Filtered Detonations" THEN MapBranch(result, df)
       ELSE IF category = "Histogram of Average Yields" THEN HistogramBranch(result, df)
       ELSE IF category = "Timeline: Detonations by Year" THEN TimelineBranch(result, df)
       ELSE IF category = "Bar Chart: Detonations by Purpose"
         THEN BarBranch(result, df, purposes)
       ELSE IF category = "Scatter Plot: Yield vs. Depth" THEN ScatterBranch(result, df)
       ELSE IF category = "Pie Chart: Detonations by Supplier Nation"
         THEN PieBranch(result, df)
       ELSE Return([result EXCEPT !.message =
                      <<"The visual category '", category,
                        "' is not recognized or implemented.">>])

\* --------------------------------------------------------------- load_data
USA == <<"U", "S", "A">>
USSR == <<"U", "S", "S", "R">>
FRANCE == <<"F", "R", "A", "N", "C", "E">>
usa_padded == <<" ", "u", "s", "a">>

CsvColumns == {"WEAPON SOURCE COUNTRY", "WEAPON DEPLOYMENT LOCATION", "Data.Source",
               "Location.Cordinates.Latitude", "Location.Cordinates.Longitude",
               "Data.Magnitude.Body", "Data.Magnitude.Surface",
               "Location.Cordinates.Depth", "Data.Yield.Lower", "Data.Yield.Upper",
               "Data.Purpose", "Data.Name", "Data.Type",
               "Date.Year", "Date.Month", "Date.Day"}

\* the columns of the DataFrame load_data returns
Schema == (CsvColumns \ {"Date.Year", "Date.Month", "Date.Day",
                         "Location.Cordinates.Latitude",
                         "Location.Cordinates.Longitude"})
          \cup {"Date", "latitude", "longitude", "Yield.Avg"}

\* the file nuclear_explosions.csv is absent or unreadable
MissingFile == [columns |-> {"<missing file>"}, rows |-> <<>>]

EmptyDataFrame == [columns |-> {}, rows |-> <<>>]

\* LoadRow averaging the yield bounds with a missing bound counted as 0
LoadRow_partial_average(r) ==
    LET date == IF IsNA(r["Date.Year"]) \/ IsNA(r["Date.Month"]) \/ IsNA(r["Date.Day"])
                  THEN NA
                  ELSE Val(MkDate(r["Date.Year"][1], r["Date.Month"][1], r["Date.Day"][1]))
        OrZero(c) == IF IsNA(c) THEN 0 ELSE c[1]
        yield_avg == IF IsNA(r["Data.Yield.Lower"]) /\ IsNA(r["Data.Yield.Upper"])
                       THEN NA
                       ELSE Val((OrZero(r["Data.Yield.Lower"])
                                 + OrZero(r["Data.Yield.Upper"])) \div 2)
    IN ("WEAPON SOURCE COUNTRY" :> r["WEAPON SOURCE COUNTRY"])
       @@ ("WEAPON DEPLOYMENT LOCATION" :> r["WEAPON DEPLOYMENT LOCATION"])
       @@ ("Data.Source" :> r["Data.Source"])
       @@ ("latitude" :> r["Location.Cordinates.Latitude"])
       @@ ("longitude" :> r["Location.Cordinates.Longitude"])
       @@ ("Data.Magnitude.Body" :> r["Data.Magnitude.Body"])
       @@ ("Data.Magnitude.Surface" :> r["Data.Magnitude.Surface"])
       @@ ("Location.Cordinates.Depth" :> r["Location.Cordinates.Depth"])
       @@ ("Data.Yield.Lower" :> r["Data.Yield.Lower"])
       @@ ("Data.Yield.Upper" :> r["Data.Yield.Upper"])
       @@ ("Data.Purpose" :> r["Data.Purpose"])
       @@ ("Data.Name" :> r["Data.Name"])
       @@ ("Data.Type" :> r["Data.Type"])
       @@ ("Date" :> date)
       @@ ("Yield.Avg" :> yield_avg)

\* lines 41-54 on one row: Date from its parts, the renamed coordinates and
\* Yield.Avg = (lower + upper) / 2, missing when either bound is missing
\* (yields are whole kilotons with an even sum, so the division is exact)
LoadRow(r) ==
    LET date == IF IsNA(r["Date.Year"]) \/ IsNA(r["Date.Month"]) \/ IsNA(r["Date.Day"])
                  THEN NA
                  ELSE Val(MkDate(r["Date.Year"][1], r["Date.Month"][1], r["Date.Day"][1]))
        yield_avg == IF IsNA(r["Data.Yield.Lower"]) \/ IsNA(r["Data.Yield.Upper"])
                       THEN NA
                       ELSE Val((r["Data.Yield.Lower"][1] + r["Data.Yield.Upper"][1]) \div 2)
    IN ("WEAPON SOURCE COUNTRY" :> r["WEAPON SOURCE COUNTRY"])
       @@ ("WEAPON DEPLOYMENT LOCATION" :> r["WEAPON DEPLOYMENT LOCATION"])
       @@ ("Data.Source" :> r["Data.Source"])
       @@ ("latitude" :> r["Location.Cordinates.Latitude"])
       @@ ("longitude" :> r["Location.Cordinates.Longitude"])
       @@ ("Data.Magnitude.Body" :> r["Data.Magnitude.Body"])
       @@ ("Data.Magnitude.Surface" :> r["Data.Magnitude.Surface"])
       @@ ("Location.Cordinates.Depth" :> r["Location.Cordinates.Depth"])
       @@ ("Data.Yield.Lower" :> r["Data.Yield.Lower"])
       @@ ("Data.Yield.Upper" :> r["Data.Yield.Upper"])
       @@ ("Data.Purpose" :> r["Data.Purpose"])
       @@ ("Data.Name" :> r["Data.Name"])
       @@ ("Data.Type" :> r["Data.Type"])
       @@ ("Date" :> date)
       @@ ("Yield.Avg" :> yield_avg)

\* lines 29-35: what load_data shows with st.error
LoadError(csv) ==
    IF csv = MissingFile
      THEN <<"Error: nuclear_explosions.csv not found. Please ensure the file is in the correct directory.">>
      ELSE <<>>

load_data(csv) ==
    IF csv = MissingFile THEN EmptyDataFrame
    ELSE [columns |-> Schema, rows |-> [i \in 1..Len(csv.rows) |-> LoadRow(csv.rows[i])]]

CsvRow(country, location, source, lat, lon, body, surface, depth, ylo, yhi, purpose, name, type, year, month, day) ==
    ("WEAPON SOURCE COUNTRY" :> country)
    @@ ("WEAPON DEPLOYMENT LOCATION" :> location)
    @@ ("Data.Source" :> source)
    @@ ("Location.Cordinates.Latitude" :> lat)
    @@ ("Location.Cordinates.Longitude" :> lon)
    @@ ("Data.Magnitude.Body" :> body)
    @@ ("Data.Magnitude.Surface" :> surface)
    @@ ("Location.Cordinates.Depth" :> depth)
    @@ ("Data.Yield.Lower" :> ylo)
    @@ ("Data.Yield.Upper" :> yhi)
    @@ ("Data.Purpose" :> purpose)
    @@ ("Data.Name" :> name)
    @@ ("Data.Type" :> type)
    @@ ("Date.Year" :> year)
    @@ ("Date.Month" :> month)
    @@ ("Date.Day" :> day)

\* a small nuclear_explosions.csv: the text columns the sidebar passes to
\* sorted(unique()) are complete; a name, a reporting source and an upper
\* yield bound are missing in one row each
CsvFile ==
    [columns |-> CsvColumns,
     rows |-> << CsvRow(Val(USA), Val("Alamogordo"), Val("DOE"), Val(32), Val(-105),
                        Val(0), Val(0), Val(-1), Val(20), Val(22),
                        Val("Wr"), Val("Trinity"), Val("Tower"), Val(1945), Val(7), Val(16)),
                 CsvRow(Val(USA), Val("Bikini"), Val("DOE"), Val(11), Val(165),
                        Val(0), Val(0), Val(0), Val(20), Val(24),
                        Val("We"), Val("Able"), Val("Airdrop"), Val(1946), Val(6), Val(30)),
                 CsvRow(Val(USSR), Val("Semi Kazakh"), Val("WTN"), Val(48), Val(78),
                        Val(5), Val(4), Val(1), Val(2), Val(4),
                        Val("Pne"), NA, Val("Shaft"), Val(1946), Val(12), Val(31)),
                 CsvRow(Val(USA), Val("Nagasaki"), NA, Val(32), Val(129),
                        Val(0), Val(0), Val(-1), Val(20), Val(20),
                        Val("Combat"), Val("Fatman"), Val("Airdrop"), Val(1945), Val(8), Val(9)),
                 CsvRow(Val(FRANCE), Val("Mururoa"), Val("DOE"), Val(-22), Val(-139),
                        Val(4), Val(0), Val(0), Val(10), Val(10),
                        Val("We"), Val("Aldebaran"), Val("Balloon"), Val(1946), Val(1), Val(1)),
                 CsvRow(Val(USA), Val("Bikini"), Val("DOE"), Val(11), Val(165),
                        Val(0), Val(0), Val(0), Val(8), NA,
                        Val("We"), Val("Baker"), Val("Airdrop"), Val(1946), Val(7), Val(25)) >>]

\* ------------------------------------------------------------- filtered_df
\* Series.between with an upper end that is not part of the range
Between_open_above(c, low, high) == ~IsNA(c) /\ low <= c[1] /\ c[1] < high

\* Series.between(low, high): inclusive at both ends, False for a missing value
Between(c, low, high) == ~IsNA(c) /\ low <= c[1] /\ c[1] <= high

\* Series.isin(values): False for a missing value
IsIn(c, values) == ~IsNA(c) /\ c[1] \in values

\* FilterMask without the condition on Data.Type
FilterMask_any_type(row, f) ==
    /\ Between(row["Date"], f.start, f.end)
    /\ Between(row["latitude"], f.lat_low, f.lat_high)
    /\ IsIn(row["WEAPON DEPLOYMENT LOCATION"], f.countries)
    /\ IsIn(row["WEAPON SOURCE COUNTRY"], f.suppliers)
    /\ Between(row["Yield.Avg"], f.y_low, f.y_high)
    /\ Between(row["Data.Magnitude.Body"], f.body_low, f.body_high)
    /\ Between(row["Data.Magnitude.Surface"], f.surface_low, f.surface_high)
    /\ Between(row["Location.Cordinates.Depth"], f.d_low, f.d_high)
    /\ IsIn(row["Data.Purpose"], f.purposes)
    /\ IsIn(row["Data.Source"], f.selected_sources)

\* lines 531-543
FilterMask(row, f) ==
    /\ Between(row["Date"], f.start, f.end)
    /\ Between(row["latitude"], f.lat_low, f.lat_high)
    /\ IsIn(row["WEAPON DEPLOYMENT LOCATION"], f.countries)
    /\ IsIn(row["WEAPON SOURCE COUNTRY"], f.suppliers)
    /\ Between(row["Yield.Avg"], f.y_low, f.y_high)
    /\ Between(row["Data.Magnitude.Body"], f.body_low, f.body_high)
    /\ Between(row["Data.Magnitude.Surface"], f.surface_low, f.surface_high)
    /\ IsIn(row["Data.Type"], f.modes)
    /\ Between(row["Location.Cordinates.Depth"], f.d_low, f.d_high)
    /\ IsIn(row["Data.Purpose"], f.purposes)
    /\ IsIn(row["Data.Source"], f.selected_sources)

FilteredDf(df, f) ==
    [columns |-> df.columns, rows |-> SelectSeq(df.rows, LAMBDA row : FilterMask(row, f))]

\* ----------------------------------------------------------------- sidebar
df == load_data(CsvFile)

Unique(d, col) == {d.rows[i][col][1] : i \in {j \in 1..Len(d.rows) : ~IsNA(d.rows[j][col])}}

ColMin(d, col) == CHOOSE x \in Unique(d, col) : \A y \in Unique(d, col) : x <= y
ColMax(d, col) == CHOOSE x \in Unique(d, col) : \A y \in Unique(d, col) : x >= y

min_year == YearOf(ColMin(df, "Date"))
max_year == YearOf(ColMax(df, "Date"))

\* the value of every sidebar widget before the user touches it
DefaultWidgets ==
    [use_exact_date |-> FALSE,
     year_range |-> <<min_year, max_year>>,
     hemisphere |-> "All",
     country_sel |-> Unique(df, "WEAPON DEPLOYMENT LOCATION"),
     supplier_sel |-> Unique(df, "WEAPON SOURCE COUNTRY"),
     yield_range |-> <<ColMin(df, "Yield.Avg"), ColMax(df, "Yield.Avg")>>,
     body_mag |-> <<ColMin(df, "Data.Magnitude.Body"), ColMax(df, "Data.Magnitude.Body")>>,
     surface_mag |-> <<ColMin(df, "Data.Magnitude.Surface"),
                       ColMax(df, "Data.Magnitude.Surface")>>,
     mode_sel |-> Unique(df, "Data.Type"),
     depth_range |-> <<ColMin(df, "Location.Cordinates.Depth"),
                       ColMax(df, "Location.Cordinates.Depth")>>,
     purpose_sel |-> Unique(df, "Data.Purpose"),
     source_sel |-> Unique(df, "Data.Source"),
     date_range |-> <<MkDate(min_year, 1, 1), MkDate(max_year, 12, 31)>>]

\* Sidebar reading the dates held by the date_input on every run
Sidebar_dates_kept(w, date_form) ==
    LET window == IF w.use_exact_date
                    THEN w.date_range
                    ELSE <<MkDate(w.year_range[1], 1, 1), MkDate(w.year_range[2], 12, 31)>>
        lat == IF w.hemisphere = "Northern" THEN <<0, 90>>
               ELSE IF w.hemisphere = "Southern" THEN <<-90, 0>>
               ELSE <<-90, 90>>
    IN [start |-> window[1], end |-> window[2],
        lat_low |-> lat[1], lat_high |-> lat[2],
        countries |-> w.country_sel,
        suppliers |-> w.supplier_sel,
        y_low |-> w.yield_range[1], y_high |-> w.yield_range[2],
        body_low |-> w.body_mag[1], body_high |-> w.body_mag[2],
        surface_low |-> w.surface_mag[1], surface_high |-> w.surface_mag[2],
        modes |-> w.mode_sel,
        d_low |-> w.depth_range[1], d_high |-> w.depth_range[2],
        purposes |-> w.purpose_sel,
        selected_sources |-> w.source_sel]

\* lines 283-340: the constraints the sidebar derives from the widget values.
\* date_form is <<>> unless this run was triggered by "Apply date filter", and
\* then <<start_date, end_date>>
Sidebar(w, date_form) ==
    LET full == <<MkDate(min_year, 1, 1), MkDate(max_year, 12, 31)>>
        window == IF w.use_exact_date
                    THEN (IF date_form # <<>> THEN date_form ELSE full)
                    ELSE <<MkDate(w.year_range[1], 1, 1), MkDate(w.year_range[2], 12, 31)>>
        lat == IF w.hemisphere = "Northern" THEN <<0, 90>>
               ELSE IF w.hemisphere = "Southern" THEN <<-90, 0>>
               ELSE <<-90, 90>>
    IN [start |-> window[1], end |-> window[2],
        lat_low |-> lat[1], lat_high |-> lat[2],
        countries |-> w.country_sel,
        suppliers |-> w.supplier_sel,
        y_low |-> w.yield_range[1], y_high |-> w.yield_range[2],
        body_low |-> w.body_mag[1], body_high |-> w.body_mag[2],
        surface_low |-> w.surface_mag[1], surface_high |-> w.surface_mag[2],
        modes |-> w.mode_sel,
        d_low |-> w.depth_range[1], d_high |-> w.depth_range[2],
        purposes |-> w.purpose_sel,
        selected_sources |-> w.source_sel]

\* ------------------------------------------------------------- render loop
\* lines 676-678
get_color(color_map, country) ==
    LET lookup_key == Upper(Strip(IF IsNA(country) THEN <<"n", "a", "n">> ELSE country[1]))
    IN IF lookup_key \in DOMAIN color_map THEN Val(color_map[lookup_key]) ELSE NA

\* lines 671-683: the drawing step of the map assigns a 'color' column to the
\* points_df object held by chart_info
DrawMap(chart_info) ==
    LET points_data == chart_info.data.points_df
        color_map == chart_info.chart_specific_props.color_map
    IN IF ~IsEmpty(points_data)
         THEN [chart_info EXCEPT !.data.points_df =
                 [columns |-> points_data.columns \cup {"color"},
                  rows |-> [i \in 1..Len(points_data.rows) |->
                              ("color" :> get_color(color_map,
                                            points_data.rows[i]["WEAPON SOURCE COUNTRY"]))
                              @@ points_data.rows[i]]]]
         ELSE chart_info

\* lines 657-824: what one visual's container shows; only the map branch
\* writes to the chart_info it was given
Draw(chart_info) ==
    IF chart_info.success /\ chart_info.chart_type = "pydeck_scatter_detailed"
      THEN DrawMap(chart_info)
      ELSE chart_info

\* frame[column] = cells on a frame: the column is added or overwritten
Assign(frame, column, cells) ==
    [columns |-> frame.columns \cup {column},
     rows |-> [i \in 1..Len(frame.rows) |-> (column :> cells[i]) @@ frame.rows[i]]]

RECURSIVE AssignAll(_, _, _)
\* the frame object named target after the column assignments, in order; an
\* assignment to another object leaves it as it is
AssignAll(frame, target, assignments) ==
    IF assignments = <<>> THEN frame
    ELSE AssignAll(IF Head(assignments).frame = target
                     THEN Assign(frame, Head(assignments).column, Head(assignments).cells)
                     ELSE frame,
                   target, Tail(assignments))

\* the map branch assigning to the frame it was given (no .copy())
MapAssignments_in_place(given) ==
    << [frame |-> "df", column |-> "Yield.Avg",
        cells |-> [i \in 1..Len(given.rows) |-> PointsRow(given.rows[i])["Yield.Avg"]]],
       [frame |-> "df", column |-> "Date_str",
        cells |-> [i \in 1..Len(given.rows) |-> PointsRow(given.rows[i])["Date_str"]]] >>

\* lines 95-100: the column assignments of the map branch; both name
\* points_df, the .copy() of the selected columns of df
MapAssignments(given) ==
    << [frame |-> "points_df", column |-> "Yield.Avg",
        cells |-> [i \in 1..Len(given.rows) |-> PointsRow(given.rows[i])["Yield.Avg"]]],
       [frame |-> "points_df", column |-> "Date_str",
        cells |-> [i \in 1..Len(given.rows) |-> PointsRow(given.rows[i])["Date_str"]]] >>

\* the column assignments prepare_chart_data makes: those of the map branch;
\* no other branch assigns to a frame (the scatter branch calls dropna() on
\* its own .copy(), line 192, the others build new Series)
BuilderAssignments(category, given) ==
    IF given = NoneDF \/ IsEmpty(given) THEN <<>>
    ELSE IF category = "Map of Filtered Detonations" /\ MapColumns \subseteq given.columns
      THEN MapAssignments(given)
    ELSE <<>>

\* line 683: the column assignment of the drawing step; points_data is the
\* points_df object of the chart request
DrawAssignments(chart_info) ==
    IF chart_info.success /\ chart_info.chart_type = "pydeck_scatter_detailed"
         /\ ~IsEmpty(chart_info.data.points_df)
      THEN << [frame |-> "points_df", column |-> "color",
               cells |-> [i \in 1..Len(chart_info.data.points_df.rows) |->
                            get_color(chart_info.chart_specific_props.color_map,
                                      chart_info.data.points_df.rows[i]["WEAPON SOURCE COUNTRY"])]] >>
      ELSE <<>>

\* lines 650-683 for one visual_spec: the frame filtered_df names once the
\* builder has returned (or raised) and the container has been drawn
GivenAfterVisual(visual_spec, given, returned) ==
    LET built == AssignAll(given, "df", BuilderAssignments(visual_spec.type, given))
    IN IF returned.raised THEN built
       ELSE AssignAll(built, "df", DrawAssignments(returned.value))

\* RenderVisual handing the unfiltered dataset to the builder
RenderVisual_unfiltered(visual_spec, filtered) ==
    LET call == prepare_chart_data(visual_spec.type, visual_spec.id, df,
                                   purpose_map, visual_spec.user_input_name)
    IN [container |-> visual_spec.id,
        returned |-> call,
        chart_info |-> IF call.raised THEN call.value ELSE Draw(call.value)]

\* lines 643-656 for one visual_spec: the call of the builder with the
\* filtered_df of this run, and what the drawing step leaves in chart_info
RenderVisual(visual_spec, filtered) ==
    LET call == prepare_chart_data(visual_spec.type, visual_spec.id, filtered,
                                   purpose_map, visual_spec.user_input_name)
    IN [container |-> visual_spec.id,
        returned |-> call,
        chart_info |-> IF call.raised THEN call.value ELSE Draw(call.value)]

\* lines 643-683: one turn of the for loop: the container it fills and the
\* frame filtered_df names after it
RenderStep(visual_spec, filtered) ==
    LET v == RenderVisual(visual_spec, filtered)
    IN [v |-> v, after |-> GivenAfterVisual(visual_spec, filtered, v.returned)]

RECURSIVE RenderFrom(_, _, _, _)
\* lines 641-656: the for loop over visuals_to_render, from position i on,
\* with the containers filled so far: the containers it fills and the frame
\* filtered_df names when it is over; an exception escaping the builder ends
\* the script run
RenderFrom(visuals, filtered, i, done) ==
    IF i > Len(visuals) THEN [rendered |-> done, frame |-> filtered]
    ELSE CHOOSE pass \in
           { IF step.v.returned.raised
               THEN [rendered |-> Append(done, step.v), frame |-> step.after]
               ELSE RenderFrom(visuals, step.after, i + 1, Append(done, step.v)) :
             step \in {RenderStep(visuals[i], filtered)} } : TRUE

RenderLoop(visuals, filtered) == RenderFrom(visuals, filtered, 1, <<>>).rendered

\* ------------------------------------------------------------------- state
VARIABLES
    visuals_to_render,   \* st.session_state.visuals_to_render
    visual_id_counter,   \* st.session_state.visual_id_counter
    widgets,             \* the sidebar widget values Streamlit keeps by key
    filtered_df,         \* filtered_df of the latest script run
    rendered,            \* one entry per container drawn by the latest run
    notice,              \* the warning and toast the latest run showed
    call,                \* arguments of a direct call of prepare_chart_data
    outcome,             \* <<>> before that call, <<its outcome>> after it
    data_file,           \* nuclear_explosions.csv on disk, or MissingFile
    load_error,          \* what load_data showed with st.error, <<>> if nothing
    script_error,        \* the exception that ended the latest run, or None
    date_caption         \* the dates of the "Showing detonations from" caption
                         \* of the latest run, <<>> when it showed none

vars == <<visuals_to_render, visual_id_counter, widgets, filtered_df, rendered,
          notice, call, outcome, data_file, load_error, script_error,
          date_caption>>

session_vars == <<visuals_to_render, visual_id_counter, widgets, filtered_df,
                  rendered, notice, data_file, load_error, script_error,
                  date_caption>>

NoNotice == [warning |-> <<>>, toast |-> <<>>]

NoCall == [category |-> Placeholder, visual_id |-> 0, df |-> NoneDF, custom_name |-> <<>>]

\* AddVisual with the capacity test off by one (<= instead of <)
AddVisual_off_by_one(visuals, counter, visual_category, visual_name) ==
    IF visual_category # Placeholder /\ counter <= MaxVisuals
      THEN [visuals |-> Append(visuals, [id |-> counter + 1, type |-> visual_category,
                                         user_input_name |-> visual_name]),
            counter |-> counter + 1,
            notice |-> [warning |-> <<>>,
                        toast |-> <<"Added '", visual_category, "' request.">>]]
      ELSE [visuals |-> visuals, counter |-> counter,
            notice |-> [warning |-> <<"Maximum of 10 visuals reached.">>,
                        toast |-> <<"Maximum of 10 visuals reached.">>]]

\* AddVisual incrementing the counter before the capacity test
AddVisual_count_first(visuals, counter, visual_category, visual_name) ==
    IF visual_category # Placeholder /\ counter < MaxVisuals
      THEN [visuals |-> Append(visuals, [id |-> counter + 1, type |-> visual_category,
                                         user_input_name |-> visual_name]),
            counter |-> counter + 1,
            notice |-> [warning |-> <<>>,
                        toast |-> <<"Added '", visual_category, "' request.">>]]
      ELSE [visuals |-> visuals,
            counter |-> IF visual_category # Placeholder THEN counter + 1 ELSE counter,
            notice |-> [warning |-> <<"Maximum of 10 visuals reached.">>,
                        toast |-> <<"Maximum of 10 visuals reached.">>]]

\* AddVisual reading the identifier before the increment
AddVisual_id_before_increment(visuals, counter, visual_category, visual_name) ==
    IF visual_category # Placeholder /\ counter < MaxVisuals
      THEN [visuals |-> Append(visuals, [id |-> counter, type |-> visual_category,
                                         user_input_name |-> visual_name]),
            counter |-> counter + 1,
            notice |-> [warning |-> <<>>,
                        toast |-> <<"Added '", visual_category, "' request.">>]]
      ELSE [visuals |-> visuals, counter |-> counter,
            notice |-> [warning |-> <<"Maximum of 10 visuals reached.">>,
                        toast |-> <<"Maximum of 10 visuals reached.">>]]

\* AddVisual inserting the new entry at the front of the list
AddVisual_prepend(visuals, counter, visual_category, visual_name) ==
    IF visual_category # Placeholder /\ counter < MaxVisuals
      THEN [visuals |-> <<[id |-> counter + 1, type |-> visual_category,
                           user_input_name |-> visual_name]>> \o visuals,
            counter |-> counter + 1,
            notice |-> [warning |-> <<>>,
                        toast |-> <<"Added '", visual_category, "' request.">>]]
      ELSE [visuals |-> visuals, counter |-> counter,
            notice |-> [warning |-> <<"Maximum of 10 visuals reached.">>,
                        toast |-> <<"Maximum of 10 visuals reached.">>]]

\* AddVisual counting a submission of the placeholder as well
AddVisual_placeholder_takes_id(visuals, counter, visual_category, visual_name) ==
    IF visual_category # Placeholder
      THEN IF counter < MaxVisuals
             THEN [visuals |-> Append(visuals, [id |-> counter + 1,
                                                type |-> visual_category,
                                                user_input_name |-> visual_name]),
                   counter |-> counter + 1,
                   notice |-> [warning |-> <<>>,
                               toast |-> <<"Added '", visual_category, "' request.">>]]
             ELSE [visuals |-> visuals,
                   counter |-> counter,
                   notice |-> [warning |-> <<"Maximum of 10 visuals reached.">>,
                               toast |-> <<"Maximum of 10 visuals reached.">>]]
      ELSE [visuals |-> visuals,
            counter |-> counter + 1,
            notice |-> [warning |-> <<"Please select a visual category before adding.">>,
                        toast |-> <<"Select a visual category first.">>]]

\* AddVisual without the test for the placeholder
AddVisual_queues_placeholder(visuals, counter, visual_category, visual_name) ==
    IF counter < MaxVisuals
      THEN [visuals |-> Append(visuals, [id |-> counter + 1,
                                         type |-> visual_category,
                                         user_input_name |-> visual_name]),
            counter |-> counter + 1,
            notice |-> [warning |-> <<>>,
                        toast |-> <<"Added '", visual_category, "' request.">>]]
      ELSE [visuals |-> visuals,
            counter |-> counter,
            notice |-> [warning |-> <<"Maximum of 10 visuals reached.">>,
                        toast |-> <<"Maximum of 10 visuals reached.">>]]

\* lines 615-638: the effect of the add_visual_form submission on the session
\* state and the notifications it shows
AddVisual(visuals, counter, visual_category, visual_name) ==
    IF visual_category # Placeholder
      THEN IF counter < MaxVisuals
             THEN [visuals |-> Append(visuals, [id |-> counter + 1,
                                                type |-> visual_category,
                                                user_input_name |-> visual_name]),
                   counter |-> counter + 1,
                   notice |-> [warning |-> <<>>,
                               toast |-> <<"Added '", visual_category, "' request.">>]]
             ELSE [visuals |-> visuals,
                   counter |-> counter,
                   notice |-> [warning |-> <<"Maximum of 10 visuals reached.">>,
                               toast |-> <<"Maximum of 10 visuals reached.">>]]
      ELSE [visuals |-> visuals,
            counter |-> counter,
            notice |-> [warning |-> <<"Please select a visual category before adding.">>,
                        toast |-> <<"Select a visual category first.">>]]

\* one run of the script, top to bottom: sidebar, filtered_df, the add form
\* handler when the run was triggered by its submit button, the render loop
ScriptRun(w, date_form, submitted, visual_category, visual_name) ==
    LET filtered == FilteredDf(df, Sidebar(w, date_form))
        added == IF submitted
                   THEN AddVisual(visuals_to_render, visual_id_counter,
                                  visual_category, visual_name)
                   ELSE [visuals |-> visuals_to_render,
                         counter |-> visual_id_counter,
                         notice |-> NoNotice]
    IN \E pass \in {RenderFrom(added.visuals, filtered, 1, <<>>)} :
       /\ widgets' = w
       /\ filtered_df' = pass.frame
       /\ visuals_to_render' = added.visuals
       /\ visual_id_counter' = added.counter
       /\ notice' = added.notice
       /\ rendered' = pass.rendered
       /\ script_error' = NoneValue
       /\ date_caption' = IF w.use_exact_date THEN date_form ELSE <<>>

\* what the user submits in add_visual_form: the placeholder, or one of two of
\* the six categories, each with the text typed into the name field
AddChoices ==
    { [category |-> Placeholder, name |-> <<"x">>],
      [category |-> VISUAL_CATEGORY_OPTIONS[1], name |-> <<>>],
      [category |-> VISUAL_CATEGORY_OPTIONS[2],
       name |-> <<" ", "Y", "i", "e", "l", "d", "s", " ">>] }

\* the user moves the year slider
ChangeYearRange ==
    \E start_y \in min_year..max_year, end_y \in min_year..max_year :
       /\ start_y <= end_y
       /\ ~widgets.use_exact_date
       /\ <<start_y, end_y>> # widgets.year_range
       /\ ScriptRun([widgets EXCEPT !.year_range = <<start_y, end_y>>],
                    <<>>, FALSE, Placeholder, <<>>)
       /\ UNCHANGED <<call, outcome, data_file, load_error>>

\* the number of queued visuals of the map category
MapsQueued ==
    Cardinality({i \in 1..Len(visuals_to_render) :
                   visuals_to_render[i].type = VISUAL_CATEGORY_OPTIONS[1]})

\* the user presses "Add Visual"; the model lets the user ask for the map at
\* most MaxMaps times
SubmitAdd ==
    \E choice \in AddChoices :
       /\ choice.category = VISUAL_CATEGORY_OPTIONS[1] => MapsQueued < MaxMaps
       /\ ScriptRun(widgets, <<>>, TRUE, choice.category, choice.name)
       /\ UNCHANGED <<call, outcome, data_file, load_error>>

\* SessionInit with the id counter starting at 1
SessionInit_counter_from_one ==
    /\ visuals_to_render = <<>>
    /\ visual_id_counter = 1
    /\ widgets = DefaultWidgets
    /\ filtered_df = FilteredDf(df, Sidebar(DefaultWidgets, <<>>))
    /\ rendered = <<>>
    /\ notice = NoNotice
    /\ data_file = CsvFile
    /\ load_error = <<>>
    /\ script_error = NoneValue
    /\ date_caption = <<>>

\* the state after the first script run of a session
SessionInit ==
    /\ visuals_to_render = <<>>
    /\ visual_id_counter = 0
    /\ widgets = DefaultWidgets
    /\ filtered_df = FilteredDf(df, Sidebar(DefaultWidgets, <<>>))
    /\ rendered = <<>>
    /\ notice = NoNotice
    /\ data_file = CsvFile
    /\ load_error = <<>>
    /\ script_error = NoneValue
    /\ date_caption = <<>>

Init ==
    /\ SessionInit
    /\ call = NoCall
    /\ outcome = <<>>

Next == ChangeYearRange \/ SubmitAdd

Spec == Init /\ [][Next]_vars

\* ------------------------------------------- a session of filter changes
\* the number of sidebar widgets that are off their default value
ChangedCount(w) == Cardinality({k \in DOMAIN DefaultWidgets : w[k] # DefaultWidgets[k]})

\* the run Streamlit starts when a sidebar widget takes a new value; the
\* model lets at most MaxChanged widgets be off their default at a time
WidgetRun(w) ==
    /\ w # widgets
    /\ ChangedCount(w) <= MaxChanged
    /\ ScriptRun(w, <<>>, FALSE, Placeholder, <<>>)
    /\ UNCHANGED <<call, outcome, data_file, load_error>>

\* the options of a multiselect the user may end up with: nothing, a single
\* option, or everything
SelectChoices(options) ==
    {sel \in SUBSET options : Cardinality(sel) \in {0, 1, Cardinality(options)}}

\* the positions of a two-ended slider over the values of a column
RangeChoices(col) ==
    {r \in Unique(df, col) \X Unique(df, col) : r[1] <= r[2]}

\* the sidebar widgets behind the constraints of filtered_df, the year slider
\* apart
FilterWidgets ==
    {"hemisphere", "country_sel", "supplier_sel", "yield_range", "body_mag",
     "surface_mag", "mode_sel", "depth_range", "purpose_sel", "source_sel"}

\* the values the user may give to the widget with that key
WidgetChoices(key) ==
    CASE key = "hemisphere" -> {"All", "Northern", "Southern"}
      [] key = "country_sel" -> SelectChoices(Unique(df, "WEAPON DEPLOYMENT LOCATION"))
      [] key = "supplier_sel" -> SelectChoices(Unique(df, "WEAPON SOURCE COUNTRY"))
      [] key = "yield_range" -> RangeChoices("Yield.Avg")
      [] key = "body_mag" -> RangeChoices("Data.Magnitude.Body")
      [] key = "surface_mag" -> RangeChoices("Data.Magnitude.Surface")
      [] key = "mode_sel" -> SelectChoices(Unique(df, "Data.Type"))
      [] key = "depth_range" -> RangeChoices("Location.Cordinates.Depth")
      [] key = "purpose_sel" -> SelectChoices(Unique(df, "Data.Purpose"))
      [] key = "source_sel" -> SelectChoices(Unique(df, "Data.Source"))

\* the user gives one of the filter widgets a new value
ChangeFilterWidget ==
    \E key \in FilterWidgets :
       \E value \in WidgetChoices(key) :
          WidgetRun([widgets EXCEPT ![key] = value])

NextFilter == ChangeYearRange \/ ChangeFilterWidget

SpecFilter == Init /\ [][NextFilter]_vars

\* --------------------------------------------- a session from the page load
NotRun == "<not run>"

\* line 273: the first statement of the sidebar reads df["Date"]
SidebarSetup(d) ==
    IF "Date" \notin d.columns THEN Raise("KeyError")
    ELSE Return(<<YearOf(ColMin(d, "Date")), YearOf(ColMax(d, "Date"))>>)

\* the script runs from its first line: load_data reads the file (line 59),
\* the sidebar is set up from what it returned, and when that raises, the run
\* ends there; otherwise the run goes on as ScriptRun describes, the loaded
\* frame being df
PageLoad ==
    LET loaded == load_data(data_file)
        setup == SidebarSetup(loaded)
    IN /\ load_error' = LoadError(data_file)
       /\ IF setup.raised
            THEN /\ script_error' = setup.exception
                 /\ rendered' = <<>>
                 /\ UNCHANGED <<visuals_to_render, visual_id_counter, widgets,
                                filtered_df, notice, date_caption>>
            ELSE ScriptRun(widgets, <<>>, FALSE, Placeholder, <<>>)
       /\ UNCHANGED <<call, outcome, data_file>>

\* before the first run of a session; the file is there or it is not
InitLoad ==
    /\ visuals_to_render = <<>>
    /\ visual_id_counter = 0
    /\ widgets = DefaultWidgets
    /\ filtered_df = EmptyDataFrame
    /\ rendered = <<>>
    /\ notice = NoNotice
    /\ data_file \in {CsvFile, MissingFile}
    /\ load_error = <<>>
    /\ script_error = NotRun
    /\ date_caption = <<>>
    /\ call = NoCall
    /\ outcome = <<>>

NextLoad == PageLoad \/ (script_error = NoneValue /\ Next)

SpecLoad == InitLoad /\ [][NextLoad]_vars

\* ------------------------------------------------ a session with the date form
\* the date ranges the user may pick in the date_input: from the first day of
\* min_year, the earliest detonation, or the first day of max_year, to a day
\* among these or the last day of max_year
DateChoices ==
    LET days == {MkDate(min_year, 1, 1), ColMin(df, "Date"),
                 MkDate(max_year, 1, 1), MkDate(max_year, 12, 31)}
    IN {r \in days \X days : r[1] <= r[2]}

\* the user ticks or unticks "Use exact date range"; the widget that is no
\* longer drawn (the year slider or the date_input) loses its value
ToggleExactDate ==
    /\ ScriptRun([widgets EXCEPT !.use_exact_date = ~widgets.use_exact_date,
                                 !.year_range = DefaultWidgets.year_range,
                                 !.date_range = DefaultWidgets.date_range],
                 <<>>, FALSE, Placeholder, <<>>)
    /\ UNCHANGED <<call, outcome, data_file, load_error>>

\* the user picks dates in date_filter_form and presses "Apply date filter"
ApplyDateFilter ==
    /\ widgets.use_exact_date
    /\ \E dates \in DateChoices :
          ScriptRun([widgets EXCEPT !.date_range = dates], dates, FALSE, Placeholder, <<>>)
    /\ UNCHANGED <<call, outcome, data_file, load_error>>

\* the user picks another hemisphere
ChangeHemisphere ==
    /\ \E hemisphere \in WidgetChoices("hemisphere") :
          /\ hemisphere # widgets.hemisphere
          /\ ScriptRun([widgets EXCEPT !.hemisphere = hemisphere],
                       <<>>, FALSE, Placeholder, <<>>)
    /\ UNCHANGED <<call, outcome, data_file, load_error>>

\* "Add Visual" pressed while the model's short queue has room
SubmitAddShort == Len(visuals_to_render) < MaxQueued /\ SubmitAdd

NextDate ==
    \/ ToggleExactDate
    \/ ApplyDateFilter
    \/ ChangeYearRange
    \/ ChangeHemisphere
    \/ SubmitAddShort

SpecDate == Init /\ [][NextDate]_vars

\* ------------------------------------ a session with every offered category
\* lines 598-602: the options of the category selectbox
SelectboxOptions ==
    {Placeholder} \cup {VISUAL_CATEGORY_OPTIONS[i] : i \in 1..Len(VISUAL_CATEGORY_OPTIONS)}

\* "Add Visual" pressed with any option of the selectbox and the name field
\* left empty, while the model's short queue has room
SubmitAnyCategory ==
    /\ Len(visuals_to_render) < MaxQueued
    /\ \E visual_category \in SelectboxOptions :
          ScriptRun(widgets, <<>>, TRUE, visual_category, <<>>)
    /\ UNCHANGED <<call, outcome, data_file, load_error>>

NextQueue == ChangeYearRange \/ SubmitAnyCategory

SpecQueue == Init /\ [][NextQueue]_vars

\* ------------------------------------- direct calls of prepare_chart_data
\* rows as load_data produces them: complete ones, one with every value
\* missing, one with only some values present
BuildPool ==
    << LoadRow(CsvRow(Val(USA), Val("Nevada"), Val("DOE"), Val(37), Val(-116),
                      Val(5), Val(4), Val(0), Val(20), Val(20),
                      Val("Wr"), Val("Wasp"), Val("Airdrop"), Val(1955), Val(2), Val(18))),
       LoadRow(CsvRow(Val(USSR), Val("Semi Kazakh"), Val("WTN"), Val(50), Val(78),
                      Val(6), Val(5), Val(1), Val(1), Val(3),
                      Val("Zz"), NA, Val("Shaft"), Val(1957), Val(11), Val(3))),
       LoadRow(CsvRow(NA, NA, NA, NA, NA, NA, NA, NA, NA, NA, NA, NA, NA, NA, NA, NA)),
       LoadRow(CsvRow(Val(usa_padded), Val("Nevada"), NA, NA, NA,
                      NA, NA, Val(-1), Val(8), NA,
                      NA, Val("Moth"), Val("Tower"), Val(1955), Val(2), Val(22))) >>

RECURSIVE SeqsUpTo(_, _)
\* the sequences of length at most n over the set S
SeqsUpTo(S, n) == IF n = 0 THEN {<<>>}
                  ELSE LET shorter == SeqsUpTo(S, n - 1)
                       IN shorter \cup {Append(q, x) : q \in shorter, x \in S}

BuildFrames ==
    {[columns |-> Schema, rows |-> [i \in 1..Len(q) |-> BuildPool[q[i]]]] :
        q \in SeqsUpTo(1..Len(BuildPool), MaxRows)}

NameCores ==
    { <<>>,
      <<"n", "o", " ", "n", "a", "m", "e">>,
      <<"N", "o", " ", "N", "a", "m", "e">>,
      <<"N", "O", " ", "N", "A", "M", "E">>,
      <<"n", "o", "n", "a", "m", "e">>,
      <<"T", "r", "i", "n", "i", "t", "y", " ", "T", "e", "s", "t">>,
      <<"x">> }

BuildNames ==
    {l \o core \o r : l \in SeqsUpTo({" ", "\t"}, MaxPad),
                      core \in NameCores,
                      r \in SeqsUpTo({" ", "\t"}, MaxPad)}

BuildCategories ==
    {VISUAL_CATEGORY_OPTIONS[i] : i \in 1..Len(VISUAL_CATEGORY_OPTIONS)}
    \cup {Placeholder, "map of filtered detonations"}

BuildIds == {1, MaxVisuals}

\* a frame that lacks one of the columns the builder reads
DropColumn(frame, col) ==
    [columns |-> frame.columns \ {col},
     rows |-> [i \in 1..Len(frame.rows) |->
                 [c \in frame.columns \ {col} |-> frame.rows[i][c]]]]

BuilderColumns == MapColumns \cup {"Data.Purpose", "Location.Cordinates.Depth"}

MalformedFrames ==
    {DropColumn(frame, col) : frame \in {f \in BuildFrames : f.rows # <<>>},
                              col \in BuilderColumns}

\* prepare_chart_data is called with the arguments held in call
BuildCall ==
    /\ outcome = <<>>
    /\ outcome' = <<prepare_chart_data(call.category, call.visual_id, call.df,
                                       purpose_map, call.custom_name)>>
    /\ UNCHANGED <<session_vars, call>>

\* the frames a call with any of the names is given: None, the frame without
\* rows or columns, each single row, and one frame of two complete rows
NameFrames ==
    {NoneDF, EmptyDataFrame, [columns |-> Schema, rows |-> <<BuildPool[1], BuildPool[2]>>]}
    \cup {[columns |-> Schema, rows |-> <<BuildPool[i]>>] : i \in 1..Len(BuildPool)}

\* the arguments of a call: every frame with a plain name, or every name with
\* one of NameFrames
InitBuild ==
    /\ SessionInit
    /\ \/ call \in [category : BuildCategories, visual_id : BuildIds,
                    df : BuildFrames \cup {NoneDF, EmptyDataFrame},
                    custom_name : {<<>>, <<"x">>}]
       \/ call \in [category : BuildCategories, visual_id : BuildIds,
                    df : NameFrames, custom_name : BuildNames]
    /\ outcome = <<>>

InitMalformed ==
    /\ SessionInit
    /\ call \in [category : BuildCategories, visual_id : {1},
                 df : MalformedFrames, custom_name : {<<>>, <<"x">>}]
    /\ outcome = <<>>

NextBuild == BuildCall

SpecBuild == InitBuild /\ [][NextBuild]_vars

SpecMalformed == InitMalformed /\ [][NextBuild]_vars

\* ================================================================== claims
\* the latest script run was triggered by the add form (it showed a toast)
AddWasSubmitted == notice.toast # <<>>

MaxWarning == <<"Maximum of 10 visuals reached.">>

\* C1: in every reachable state the visualization queue holds at most 10
\* entries, and a step taken from a queue of 10 entries leaves it at 10.
C1_QueueAtMostTen ==
    /\ [](Len(visuals_to_render) <= 10)
    /\ [][Len(visuals_to_render) = 10 => Len(visuals_to_render') = 10]_vars

\* ten accepted adds, then one more add that was turned down
C1_Witness ==
    /\ Len(visuals_to_render) = 10
    /\ notice.warning = MaxWarning

\* C2: a step that submits an add while the queue holds 10 entries shows a
\* warning (the capacity warning when a category was chosen) and leaves the
\* queued list and the id counter as they were.
C2_FullAddChangesNothing ==
    [][(Len(visuals_to_render) = 10 /\ notice'.toast # <<>>)
       => /\ notice'.warning # <<>>
          /\ notice'.warning # <<"Please select a visual category before adding.">>
                => notice'.warning = MaxWarning
          /\ visuals_to_render' = visuals_to_render
          /\ visual_id_counter' = visual_id_counter]_vars

\* a full queue right after a rejected add, entries of both offered categories
C2_Witness ==
    /\ Len(visuals_to_render) = 10
    /\ notice.warning = MaxWarning
    /\ notice.toast = MaxWarning
    /\ \E i, j \in 1..10 : visuals_to_render[i].type # visuals_to_render[j].type

\* C3: the k-th entry of the queue has identifier k, so the identifiers start
\* at 1, increase by one along the list and are pairwise distinct.
C3_SequentialIds ==
    /\ \A k \in 1..Len(visuals_to_render) : visuals_to_render[k].id = k
    /\ \A i, j \in 1..Len(visuals_to_render) :
          i # j => visuals_to_render[i].id # visuals_to_render[j].id

\* three accepted adds, with a rejected placeholder submission among the runs
C3_Witness ==
    /\ Len(visuals_to_render) = 3
    /\ visuals_to_render[3].id = 3
    /\ notice.warning = <<"Please select a visual category before adding.">>

\* C4: after every script run there is exactly one rendered container per
\* queued visual, in queue order, and the chart request of each is what the
\* builder returns for the records that pass the filter settings of that run.
C4_ReplayFromCurrentRecords ==
    LET current == FilteredDf(df, Sidebar(widgets, <<>>))
    IN /\ filtered_df = current
       /\ Len(rendered) = Len(visuals_to_render)
       /\ \A i \in 1..Len(visuals_to_render) :
             /\ rendered[i].container = visuals_to_render[i].id
             /\ rendered[i].returned =
                   prepare_chart_data(visuals_to_render[i].type,
                                      visuals_to_render[i].id, current, purpose_map,
                                      visuals_to_render[i].user_input_name)

\* two visuals queued earlier, shown by a run that a later slider move
\* triggered: the first one's chart request differs from the one the default
\* filter settings give
C4_Witness ==
    /\ Len(visuals_to_render) = 2
    /\ ~AddWasSubmitted
    /\ widgets.year_range # DefaultWidgets.year_range
    /\ Len(rendered) = 2
    /\ rendered[1].returned.value.success
    /\ rendered[1].returned #
          prepare_chart_data(visuals_to_render[1].type, visuals_to_render[1].id,
                             FilteredDf(df, Sidebar(DefaultWidgets, <<>>)), purpose_map,
                             visuals_to_render[1].user_input_name)

\* C5: every step keeps the queued entries where they are: the list after the
\* step starts with the whole list before it (same identifiers, categories
\* and names at the same positions).
C5_AppendOnly ==
    [][/\ Len(visuals_to_render') >= Len(visuals_to_render)
       /\ SubSeq(visuals_to_render', 1, Len(visuals_to_render)) = visuals_to_render]_vars

\* entries of different categories and names, still in place after a later
\* slider move
C5_Witness ==
    /\ Len(visuals_to_render) >= 2
    /\ ~AddWasSubmitted
    /\ visuals_to_render[1].type # visuals_to_render[2].type
    /\ visuals_to_render[1].user_input_name # visuals_to_render[2].user_input_name
    /\ widgets.year_range # DefaultWidgets.year_range

\* ---------------------------------------------------- claims on the builder
Called == outcome # <<>>

NonEmptyFrame == call.df # NoneDF /\ ~IsEmpty(call.df)

NonEmptyText(m) == \E i \in 1..Len(m) : m[i] # ""

\* the columns the branch of a category reads
RequiredColumns(category) ==
    CASE category = VISUAL_CATEGORY_OPTIONS[1] -> MapColumns
      [] category = VISUAL_CATEGORY_OPTIONS[2] -> {"Yield.Avg"}
      [] category = VISUAL_CATEGORY_OPTIONS[3] -> {"Date"}
      [] category = VISUAL_CATEGORY_OPTIONS[4] -> {"Data.Purpose"}
      [] category = VISUAL_CATEGORY_OPTIONS[5] -> {"Yield.Avg", "Location.Cordinates.Depth"}
      [] category = VISUAL_CATEGORY_OPTIONS[6] -> {"WEAPON SOURCE COUNTRY"}
      [] OTHER -> {}

C7_NoExceptionEscapes ==
    Called => /\ ~outcome[1].raised
              /\ ~(RequiredColumns(call.category) \subseteq call.df.columns)
                    => /\ ~outcome[1].value.success
                       /\ NonEmptyText(outcome[1].value.message)

\* the records of a category's required input hold no usable value
NoUsableInput(category, frame) ==
    LET AllMissing(col) == \A i \in 1..Len(frame.rows) : IsNA(frame.rows[i][col])
    IN CASE category = VISUAL_CATEGORY_OPTIONS[1] ->
              \A i \in 1..Len(frame.rows) :
                 IsNA(frame.rows[i]["latitude"]) \/ IsNA(frame.rows[i]["longitude"])
         [] category = VISUAL_CATEGORY_OPTIONS[2] -> AllMissing("Yield.Avg")
         [] category = VISUAL_CATEGORY_OPTIONS[3] -> AllMissing("Date")
         [] category = VISUAL_CATEGORY_OPTIONS[4] -> AllMissing("Data.Purpose")
         [] category = VISUAL_CATEGORY_OPTIONS[5] ->
              AllMissing("Yield.Avg") \/ AllMissing("Location.Cordinates.Depth")
         [] category = VISUAL_CATEGORY_OPTIONS[6] -> AllMissing("WEAPON SOURCE COUNTRY")
         [] OTHER -> FALSE

\* the diagnostic each category has for missing data
NoDataMessage(category) ==
    CASE category = VISUAL_CATEGORY_OPTIONS[1] -> <<"No valid coordinate data for map.">>
      [] category = VISUAL_CATEGORY_OPTIONS[2] ->
           <<"No 'Yield.Avg' data (all NaN or empty) to display histogram.">>
      [] category = VISUAL_CATEGORY_OPTIONS[3] ->
           <<"No data to plot timeline by year after processing.">>
      [] category = VISUAL_CATEGORY_OPTIONS[4] ->
           <<"No 'Data.Purpose' entries found or all are NaN after mapping.">>
      [] category = VISUAL_CATEGORY_OPTIONS[5] ->
           <<"Not enough valid data points (Yield & Depth) for scatter plot after dropping NaNs.">>
      [] category = VISUAL_CATEGORY_OPTIONS[6] ->
           <<"No 'WEAPON SOURCE COUNTRY' data to display pie chart.">>
      [] OTHER -> <<>>

\* C8: for each of the six categories, when the required input of a non-empty
\* record collection holds only missing values, the call returns
\* success = FALSE with the diagnostic of that category and does not raise.
C8_NoUsableDataFails ==
    (Called /\ NonEmptyFrame /\ NoUsableInput(call.category, call.df))
       => /\ ~outcome[1].raised
          /\ ~outcome[1].value.success
          /\ outcome[1].value.message = NoDataMessage(call.category)

\* t is s without its leading and trailing whitespace
IsTrimOf(t, s) ==
    \E i \in 1..(Len(s) + 1) : \E j \in (i - 1)..Len(s) :
       /\ t = SubSeq(s, i, j)
       /\ \A k \in 1..(i - 1) : s[k] \in Whitespace
       /\ \A k \in (j + 1)..Len(s) : s[k] \in Whitespace
       /\ t # <<>> => (t[1] \notin Whitespace /\ t[Len(t)] \notin Whitespace)

\* a and b are the same text up to the case of their letters
SameIgnoringCase(a, b) ==
    /\ Len(a) = Len(b)
    /\ \A k \in 1..Len(a) :
          \/ a[k] = b[k]
          \/ a[k] \in DOMAIN UpperToLower /\ UpperToLower[a[k]] = b[k]
          \/ b[k] \in DOMAIN UpperToLower /\ UpperToLower[b[k]] = a[k]

RECURSIVE DecimalValue(_)
\* the number a sequence of decimal digits denotes
DecimalValue(d) ==
    IF d = <<>> THEN 0
    ELSE 10 * DecimalValue(SubSeq(d, 1, Len(d) - 1))
         + (CHOOSE n \in 0..9 : DigitChar[n + 1] = d[Len(d)])

\* name is "Visual #" followed by the decimal numeral of id
IsGeneratedName(name, id) ==
    /\ Len(name) > Len(VisualPrefix)
    /\ SubSeq(name, 1, Len(VisualPrefix)) = VisualPrefix
    /\ LET d == SubSeq(name, Len(VisualPrefix) + 1, Len(name))
       IN /\ \A k \in 1..Len(d) : \E n \in 0..9 : DigitChar[n + 1] = d[k]
          /\ Len(d) > 1 => d[1] # "0"
          /\ DecimalValue(d) = id

\* C10: whatever the category and whether or not the build succeeds, the
\* final display name is the override without its leading and trailing
\* whitespace when that is non-empty and differs from "no name" ignoring
\* case, and "Visual #<id>" otherwise.
C10_DisplayName ==
    Called =>
       /\ ~outcome[1].raised
       /\ \E i \in 1..(Len(call.custom_name) + 1) :
            \E j \in (i - 1)..Len(call.custom_name) :
               LET t == SubSeq(call.custom_name, i, j)
               IN /\ IsTrimOf(t, call.custom_name)
                  /\ IF t # <<>> /\ ~SameIgnoringCase(t, NoName)
                       THEN outcome[1].value.final_display_name = t
                       ELSE IsGeneratedName(outcome[1].value.final_display_name,
                                            call.visual_id)

\* a padded override spelling the sentinel in capitals, on a failed build
\* for the visual with the two-digit identifier
C10_Witness ==
    /\ Called
    /\ call.custom_name = <<" ", "N", "O", " ", "N", "A", "M", "E", "\t">>
    /\ call.visual_id = 10
    /\ ~outcome[1].value.success
    /\ outcome[1].value.final_display_name =
          <<"V", "i", "s", "u", "a", "l", " ", "#", "1", "0">>

\* the k-th smallest member of a set of row positions
NthIndex(positions, k) ==
    CHOOSE i \in positions : Cardinality({j \in positions : j <= i}) = k

\* a value that is missing or lies outside low..high
OutOfRange(c, low, high) == IsNA(c) \/ c[1] < low \/ c[1] > high

\* a value that is missing or is not one of the selected ones
NotSelected(c, selected) == IsNA(c) \/ c[1] \notin selected

\* the constraints of the Filter Set (numbered as in lines 531-543) that a
\* record does not satisfy
FailedConstraints(row, f) ==
    {k \in 1..11 :
       CASE k = 1 -> OutOfRange(row["Date"], f.start, f.end)
         [] k = 2 -> OutOfRange(row["latitude"], f.lat_low, f.lat_high)
         [] k = 3 -> NotSelected(row["WEAPON DEPLOYMENT LOCATION"], f.countries)
         [] k = 4 -> NotSelected(row["WEAPON SOURCE COUNTRY"], f.suppliers)
         [] k = 5 -> OutOfRange(row["Yield.Avg"], f.y_low, f.y_high)
         [] k = 6 -> OutOfRange(row["Data.Magnitude.Body"], f.body_low, f.body_high)
         [] k = 7 -> OutOfRange(row["Data.Magnitude.Surface"], f.surface_low, f.surface_high)
         [] k = 8 -> NotSelected(row["Data.Type"], f.modes)
         [] k = 9 -> OutOfRange(row["Location.Cordinates.Depth"], f.d_low, f.d_high)
         [] k = 10 -> NotSelected(row["Data.Purpose"], f.purposes)
         [] k = 11 -> NotSelected(row["Data.Source"], f.selected_sources)}

\* the record is one of those the latest run kept
Kept(row) == \E k \in 1..Len(filtered_df.rows) : filtered_df.rows[k] = row

\* C11: the reduced collection holds, in dataset order, exactly the records
\* that fail none of the eleven constraints of the Filter Set, and it is empty
\* whenever the selected set of a categorical field is empty.
C11_KeptIffEveryConstraint ==
    LET f == Sidebar(widgets, <<>>)
        passing == {i \in 1..Len(df.rows) : FailedConstraints(df.rows[i], f) = {}}
    IN /\ Len(filtered_df.rows) = Cardinality(passing)
       /\ \A k \in 1..Len(filtered_df.rows) :
             filtered_df.rows[k] = df.rows[NthIndex(passing, k)]
       /\ ( \/ widgets.country_sel = {}
            \/ widgets.supplier_sel = {}
            \/ widgets.mode_sel = {}
            \/ widgets.purpose_sel = {}
            \/ widgets.source_sel = {} ) => filtered_df.rows = <<>>

\* two constraints narrowed: one record dropped by the latitude band alone,
\* another by the source set alone, and two records kept
C11_Witness ==
    LET f == Sidebar(widgets, <<>>)
    IN /\ widgets.hemisphere = "Northern"
       /\ widgets.source_sel = {"DOE"}
       /\ Len(filtered_df.rows) = 2
       /\ \E i, j \in 1..Len(df.rows) :
             /\ FailedConstraints(df.rows[i], f) = {2}
             /\ FailedConstraints(df.rows[j], f) = {11}

\* the six range constraints of the Filter Set
RangeConstraints(f) ==
    << [col |-> "Date", low |-> f.start, high |-> f.end],
       [col |-> "latitude", low |-> f.lat_low, high |-> f.lat_high],
       [col |-> "Yield.Avg", low |-> f.y_low, high |-> f.y_high],
       [col |-> "Data.Magnitude.Body", low |-> f.body_low, high |-> f.body_high],
       [col |-> "Data.Magnitude.Surface", low |-> f.surface_low, high |-> f.surface_high],
       [col |-> "Location.Cordinates.Depth", low |-> f.d_low, high |-> f.d_high] >>

\* the record passes each of the five categorical constraints
PassesSelections(row, f) == FailedConstraints(row, f) \cap {3, 4, 8, 10, 11} = {}

\* the record has a value for every range-constrained field, none of them
\* below its low end or above its high end, and one of them at an end
OnRangeEnd(row, f) ==
    LET ranges == RangeConstraints(f)
    IN /\ \A r \in 1..Len(ranges) :
             /\ ~IsNA(row[ranges[r].col])
             /\ ~(row[ranges[r].col][1] < ranges[r].low)
             /\ ~(row[ranges[r].col][1] > ranges[r].high)
       /\ \E r \in 1..Len(ranges) :
             row[ranges[r].col][1] \in {ranges[r].low, ranges[r].high}

\* C12: a record that lacks a value for a range-constrained field is never
\* kept, whatever the ranges (the default full ranges included), and a record
\* whose values lie within the ranges with one of them equal to a low or a
\* high end is kept when it passes the categorical constraints.
C12_InclusiveRangesMissingFails ==
    LET f == Sidebar(widgets, <<>>)
        ranges == RangeConstraints(f)
    IN \A i \in 1..Len(df.rows) :
          /\ (\E r \in 1..Len(ranges) : IsNA(df.rows[i][ranges[r].col]))
                => ~Kept(df.rows[i])
          /\ (OnRangeEnd(df.rows[i], f) /\ PassesSelections(df.rows[i], f))
                => Kept(df.rows[i])

\* the yield range narrowed to 10..21: the records at 10 and at 21 are kept,
\* the one at 22 is not, and neither is the record without an average yield
C12_Witness ==
    /\ widgets.yield_range = <<10, 21>>
    /\ \E i, j \in 1..Len(filtered_df.rows) :
          /\ filtered_df.rows[i]["Yield.Avg"] = Val(21)
          /\ filtered_df.rows[j]["Yield.Avg"] = Val(10)
    /\ \E i \in 1..Len(df.rows) :
          /\ IsNA(df.rows[i]["Yield.Avg"])
          /\ ~IsNA(df.rows[i]["Data.Source"])
          /\ ~Kept(df.rows[i])

\* C13: once a run has started with the input file missing, load_data has
\* shown an error and returned a dataset without records, and the run went
\* through to its end: no exception ended it, no record passed the filter
\* and no queued visual was given a successful chart request.
C13_MissingFileDegrades ==
    (data_file = MissingFile /\ script_error # NotRun) =>
        /\ load_error # <<>>
        /\ IsEmpty(load_data(data_file))
        /\ script_error = NoneValue
        /\ filtered_df.rows = <<>>
        /\ \A i \in 1..Len(rendered) :
              /\ ~rendered[i].returned.raised
              /\ ~rendered[i].returned.value.success

\* the positions of the records of the call that have a value in each of cols
RowsWith(cols) ==
    {i \in 1..Len(call.df.rows) : \A c \in cols : ~IsNA(call.df.rows[i][c])}

RECURSIVE SumSeq(_)
SumSeq(q) == IF q = <<>> THEN 0 ELSE Head(q) + SumSeq(Tail(q))

\* C14: the scatter category keeps the records that have both an average
\* yield and a depth; with fewer than two of them the result has
\* success = FALSE, and with two or more it has success = TRUE and its k-th
\* point is (depth, average yield) of the k-th such record.
C14_ScatterPairsCompleteRows ==
    (Called /\ call.category = VISUAL_CATEGORY_OPTIONS[5]) =>
       LET complete == RowsWith({"Yield.Avg", "Location.Cordinates.Depth"})
           result == outcome[1].value
       IN /\ ~outcome[1].raised
          /\ result.success = (Cardinality(complete) >= 2)
          /\ result.success =>
                /\ Len(result.data.x_values) = Cardinality(complete)
                /\ Len(result.data.y_values) = Cardinality(complete)
                /\ \A k \in 1..Cardinality(complete) :
                      LET row == call.df.rows[NthIndex(complete, k)]
                      IN /\ result.data.x_values[k] = row["Location.Cordinates.Depth"][1]
                         /\ result.data.y_values[k] = row["Yield.Avg"][1]

\* three records, the middle one without an average yield: two points, the
\* depths 0 and 1 on x and the yields 20 and 2 on y
C14_Witness ==
    /\ Called /\ call.category = VISUAL_CATEGORY_OPTIONS[5]
    /\ Len(call.df.rows) = 3
    /\ RowsWith({"Yield.Avg", "Location.Cordinates.Depth"}) = {1, 3}
    /\ outcome[1].value.success
    /\ outcome[1].value.data.x_values = <<0, 1>>
    /\ outcome[1].value.data.y_values = <<20, 2>>

\* C15: the timeline category lists the distinct years of the dated records
\* in strictly ascending order, each with the number of records of that
\* year, so the counts add up to the number of dated records; without a
\* dated record the result has success = FALSE.
C15_TimelineCountsPerYear ==
    (Called /\ call.category = VISUAL_CATEGORY_OPTIONS[3]) =>
       LET dated == RowsWith({"Date"})
           YearAt(i) == YearOf(call.df.rows[i]["Date"][1])
           years == {YearAt(i) : i \in dated}
           result == outcome[1].value
       IN /\ ~outcome[1].raised
          /\ result.success = (dated # {})
          /\ result.success =>
                /\ Len(result.data.x_values) = Cardinality(years)
                /\ Len(result.data.y_values) = Cardinality(years)
                /\ \A k \in 1..Cardinality(years) :
                      /\ result.data.x_values[k] \in years
                      /\ result.data.y_values[k] =
                            Cardinality({i \in dated : YearAt(i) = result.data.x_values[k]})
                      /\ k > 1 => result.data.x_values[k - 1] < result.data.x_values[k]
                /\ SumSeq(result.data.y_values) = Cardinality(dated)

\* records of 1957, 1955 and 1955, in that order: (1955, 2) then (1957, 1)
C15_Witness ==
    /\ Called /\ call.category = VISUAL_CATEGORY_OPTIONS[3]
    /\ Len(call.df.rows) = 3
    /\ RowsWith({"Date"}) = {1, 2, 3}
    /\ YearOf(call.df.rows[1]["Date"][1]) = 1957
    /\ outcome[1].value.success
    /\ outcome[1].value.data.x_values = <<1955, 1957>>
    /\ outcome[1].value.data.y_values = <<2, 1>>

\* C16: the histogram category returns the average yields of the records
\* that have one, each with its own value and in record order, and has
\* success = FALSE exactly when no record has an average yield.
C16_HistogramDropsMissing ==
    (Called /\ call.category = VISUAL_CATEGORY_OPTIONS[2]) =>
       LET present == RowsWith({"Yield.Avg"})
           result == outcome[1].value
       IN /\ ~outcome[1].raised
          /\ result.success = (present # {})
          /\ result.success =>
                /\ Len(result.data.values) = Cardinality(present)
                /\ \A k \in 1..Cardinality(present) :
                      result.data.values[k] =
                         call.df.rows[NthIndex(present, k)]["Yield.Avg"][1]

\* average yields 20, missing, 2: the series is 20, 2
C16_Witness ==
    /\ Called /\ call.category = VISUAL_CATEGORY_OPTIONS[2]
    /\ Len(call.df.rows) = 3
    /\ RowsWith({"Yield.Avg"}) = {1, 3}
    /\ outcome[1].value.success
    /\ outcome[1].value.data.values = <<20, 2>>

\* the label a purpose code stands for: its dictionary entry, or the code
LabelOf(code) == IF code \in DOMAIN purpose_map THEN purpose_map[code] ELSE code

\* C17: the bar category gives one (label, count) pair per distinct label of
\* the records that have a purpose code, the label of a code being its
\* dictionary entry or else the code itself and the count the number of such
\* records with that label; when no record has a purpose code the result has
\* success = FALSE.
C17_BarCountsPerLabel ==
    (Called /\ call.category = VISUAL_CATEGORY_OPTIONS[4]) =>
       LET coded == RowsWith({"Data.Purpose"})
           LabelAt(i) == LabelOf(call.df.rows[i]["Data.Purpose"][1])
           labels == {LabelAt(i) : i \in coded}
           result == outcome[1].value
       IN /\ ~outcome[1].raised
          /\ result.success = (coded # {})
          /\ result.success =>
                /\ Len(result.data.y_categories) = Cardinality(labels)
                /\ Len(result.data.x_values) = Cardinality(labels)
                /\ \A k \in 1..Len(result.data.y_categories) :
                      /\ result.data.y_categories[k] \in labels
                      /\ result.data.x_values[k] =
                            Cardinality({i \in coded : LabelAt(i) = result.data.y_categories[k]})
                      /\ \A j \in 1..(k - 1) :
                            result.data.y_categories[j] # result.data.y_categories[k]

\* the chart kinds the branches of the builder assign
ChartKinds == {"pydeck_scatter_detailed", "hist", "plot", "barh", "scatter", "pie"}

\* C18: a result with success = TRUE carries one of the six chart kinds, and
\* a result with success = FALSE carries none (None), whatever the category
\* and whatever made the call fail.
C18_ChartKindUnsetOnFailure ==
    (Called /\ ~outcome[1].raised) =>
       /\ outcome[1].value.success => outcome[1].value.chart_type \in ChartKinds
       /\ ~outcome[1].value.success => outcome[1].value.chart_type = NoneValue

\* C19: what a container holds once its visual has been drawn is the chart
\* request exactly as the builder returned it in this run: the drawing step
\* changed no field and no data series of it.
C19_RequestNeverMutated ==
    \A i \in 1..Len(rendered) :
       ~rendered[i].returned.raised => rendered[i].chart_info = rendered[i].returned.value

\* the record has no average yield although none may be missing
LacksBound(row) == IsNA(row["Data.Yield.Lower"]) \/ IsNA(row["Data.Yield.Upper"])

\* C20: in the dataset, in the filtered collection and in the records given
\* to the builder, a record that lacks a yield bound has no average yield;
\* the map's point list has 0 in its place and the loaded average elsewhere,
\* while the histogram and the scatter series hold one value per record with
\* both bounds (and a depth, for the scatter) and nothing for the others.
C20_ZeroOnlyInMapPoints ==
    /\ \A frame \in {df, filtered_df, call.df} :
          \A i \in 1..Len(frame.rows) :
             LacksBound(frame.rows[i]) => IsNA(frame.rows[i]["Yield.Avg"])
    /\ (Called /\ ~outcome[1].raised /\ outcome[1].value.success) =>
          LET result == outcome[1].value
              rows == call.df.rows
              bounded == {i \in 1..Len(rows) : ~LacksBound(rows[i])}
          IN /\ call.category = VISUAL_CATEGORY_OPTIONS[1] =>
                   \A i \in 1..Len(rows) :
                      result.data.points_df.rows[i]["Yield.Avg"] =
                         IF LacksBound(rows[i]) THEN Val(0) ELSE rows[i]["Yield.Avg"]
             /\ call.category = VISUAL_CATEGORY_OPTIONS[2] =>
                   /\ Len(result.data.values) = Cardinality(bounded)
                   /\ \A k \in 1..Len(result.data.values) :
                         Val(result.data.values[k]) = rows[NthIndex(bounded, k)]["Yield.Avg"]
             /\ call.category = VISUAL_CATEGORY_OPTIONS[5] =>
                   LET plotted == {i \in bounded : ~IsNA(rows[i]["Location.Cordinates.Depth"])}
                   IN /\ Len(result.data.y_values) = Cardinality(plotted)
                      /\ \A k \in 1..Len(result.data.y_values) :
                            Val(result.data.y_values[k]) = rows[NthIndex(plotted, k)]["Yield.Avg"]

\* the map of two records, the second with a lower bound of 8 kt and no
\* upper bound: no average yield in the record, 0 in its map point
C20_Witness ==
    /\ Called /\ call.category = VISUAL_CATEGORY_OPTIONS[1]
    /\ Len(call.df.rows) = 2
    /\ call.df.rows[2]["Data.Yield.Lower"] = Val(8)
    /\ IsNA(call.df.rows[2]["Data.Yield.Upper"])
    /\ IsNA(call.df.rows[2]["Yield.Avg"])
    /\ outcome[1].value.success
    /\ outcome[1].value.data.points_df.rows[1]["Yield.Avg"] = Val(20)
    /\ outcome[1].value.data.points_df.rows[2]["Yield.Avg"] = Val(0)

\* the records of the dataset that pass the constraints of the widgets with
\* the date window start..end
KeptInWindow(w, start, end) ==
    LET f == [Sidebar(w, <<>>) EXCEPT !.start = start, !.end = end]
    IN SelectSeq(df.rows, LAMBDA row : FailedConstraints(row, f) = {})

\* C21: while "Use exact date range" is ticked, the run started by the date
\* form keeps the records within the dates it was given, and every run
\* started by anything else keeps the records of the whole range from the
\* first day of min_year to the last day of max_year, whatever dates the
\* date_input still holds; the containers hold what the builder returns for
\* those records.
C21_DatesApplyOnlyOnSubmit ==
    widgets.use_exact_date =>
       /\ date_caption # <<>> =>
             filtered_df.rows = KeptInWindow(widgets, date_caption[1], date_caption[2])
       /\ date_caption = <<>> =>
             filtered_df.rows =
                KeptInWindow(widgets, MkDate(min_year, 1, 1), MkDate(max_year, 12, 31))
       /\ \A i \in 1..Len(rendered) :
             rendered[i].returned =
                prepare_chart_data(visuals_to_render[i].type, visuals_to_render[i].id,
                                   filtered_df, purpose_map,
                                   visuals_to_render[i].user_input_name)

\* dates within max_year were applied, then a visual was added: the
\* date_input still holds the dates, the run showed no caption, and a record
\* of min_year is among those the queued visual is built from
C21_Witness ==
    /\ widgets.use_exact_date
    /\ widgets.date_range = <<MkDate(max_year, 1, 1), MkDate(max_year, 12, 31)>>
    /\ date_caption = <<>>
    /\ AddWasSubmitted
    /\ Len(rendered) = 1
    /\ rendered[1].returned.value.success
    /\ \E k \in 1..Len(filtered_df.rows) :
          filtered_df.rows[k]["Date"][1] < MkDate(max_year, 1, 1)

PlaceholderWarning == <<"Please select a visual category before adding.">>

PlaceholderToast == <<"Select a visual category first.">>

\* C22: in every reachable state the id counter equals the length of the
\* queue, and a step that submits an add with one of the categories makes the
\* queue one entry longer exactly when it held fewer than 10 entries.
C22_CounterIsQueueLength ==
    /\ [](visual_id_counter = Len(visuals_to_render))
    /\ [][(notice'.toast # <<>> /\ notice'.toast # PlaceholderToast)
           => (Len(visuals_to_render') = Len(visuals_to_render) + 1
                 <=> Len(visuals_to_render) < 10)]_vars

\* the tenth add was accepted: ten entries, counter 10
C22_Witness ==
    /\ visual_id_counter = 10
    /\ Len(visuals_to_render) = 10
    /\ notice.warning = <<>>
    /\ notice.toast # <<>>

\* C23: a step that submits the add form with "Select a category..." shows
\* the warning asking for a category and leaves the queue and the id counter
\* as they were, with a full queue as with any other.
C23_PlaceholderAddRejected ==
    [][notice'.toast = PlaceholderToast
       => /\ notice'.warning = PlaceholderWarning
          /\ visuals_to_render' = visuals_to_render
          /\ visual_id_counter' = visual_id_counter]_vars

\* the placeholder submitted on a full queue
C23_Witness ==
    /\ Len(visuals_to_render) = 10
    /\ visual_id_counter = 10
    /\ notice.warning = PlaceholderWarning
    /\ notice.toast = PlaceholderToast

\* the message of the builder's branch for a category it does not know
UnrecognizedMessage(category) ==
    <<"The visual category '", category, "' is not recognized or implemented.">>

\* C24: every queued entry has one of the six categories, and no container
\* of a run holds the result of the builder's unrecognized-category branch.
C24_QueuedCategoriesSupported ==
    /\ \A i \in 1..Len(visuals_to_render) :
          \E k \in 1..6 : visuals_to_render[i].type = VISUAL_CATEGORY_OPTIONS[k]
    /\ \A i \in 1..Len(rendered) :
          /\ ~rendered[i].returned.raised
          /\ rendered[i].returned.value.message # UnrecognizedMessage(visuals_to_render[i].type)

\* a pie chart and then a bar chart queued and rendered
C24_Witness ==
    /\ Len(visuals_to_render) = 2
    /\ visuals_to_render[1].type = VISUAL_CATEGORY_OPTIONS[6]
    /\ visuals_to_render[2].type = VISUAL_CATEGORY_OPTIONS[4]
    /\ Len(rendered) = 2
    /\ rendered[2].returned.value.chart_type = "barh"

\* C25: when a run is over, filtered_df still names the records the filter
\* kept, with the columns of the dataset and no other, and every container
\* holds what the builder returns for these records, whatever is queued
\* before it.
C25_GivenRecordsUnchanged ==
    LET kept == FilteredDf(df, Sidebar(widgets, date_caption))
    IN /\ filtered_df = kept
       /\ filtered_df.columns = Schema
       /\ \A i \in 1..Len(rendered) :
             rendered[i].returned =
                prepare_chart_data(visuals_to_render[i].type, visuals_to_render[i].id,
                                   kept, purpose_map, visuals_to_render[i].user_input_name)

\* a map drawn before a scatter plot: the map's points carry the Date_str and
\* color columns, the records do not, and the scatter plot has its points
C25_Witness ==
    /\ Len(rendered) = 2
    /\ visuals_to_render[1].type = VISUAL_CATEGORY_OPTIONS[1]
    /\ visuals_to_render[2].type = VISUAL_CATEGORY_OPTIONS[5]
    /\ {"Date_str", "color"} \subseteq rendered[1].chart_info.data.points_df.columns
    /\ {"Date_str", "color"} \cap filtered_df.columns = {}
    /\ rendered[2].returned.value.success

\* C26: a call with records to work on and a category that is none of the
\* six returns success false, no chart kind, empty data, labels and
\* properties, the message that quotes the category, and the display name
\* of the display-name rule.
C26_UnknownCategoryFails ==
    (/\ Called
     /\ NonEmptyFrame
     /\ \A k \in 1..6 : call.category # VISUAL_CATEGORY_OPTIONS[k])
    => /\ ~outcome[1].raised
       /\ outcome[1].value.success = FALSE
       /\ outcome[1].value.chart_type = NoneValue
       /\ outcome[1].value.data = EmptyDict
       /\ outcome[1].value.labels = EmptyDict
       /\ outcome[1].value.chart_specific_props = EmptyDict
       /\ outcome[1].value.message =
             <<"The visual category '", call.category, "' is not recognized or implemented.">>
       /\ \E i \in 1..(Len(call.custom_name) + 1) :
            \E j \in (i - 1)..Len(call.custom_name) :
               LET t == SubSeq(call.custom_name, i, j)
               IN /\ IsTrimOf(t, call.custom_name)
                  /\ IF t # <<>> /\ ~SameIgnoringCase(t, NoName)
                       THEN outcome[1].value.final_display_name = t
                       ELSE IsGeneratedName(outcome[1].value.final_display_name,
                                            call.visual_id)

\* the map category spelled in lower case, called with one record and the
\* override "x"
C26_Witness ==
    /\ Called
    /\ call.category = "map of filtered detonations"
    /\ Len(call.df.rows) = 1
    /\ call.custom_name = <<"x">>
    /\ outcome[1].value.message[2] = "map of filtered detonations"
    /\ outcome[1].value.final_display_name = <<"x">>

====
